---- MODULE Spec2Model ----
(***************************************************************************)
(* Black-Grimoire: the entity manager (src/src/ecs/mod.rs), the six        *)
(* component stores (src/src/ecs/components/*.rs), the health system and   *)
(* the rigid-body system, as a state machine.                              *)
(*                                                                         *)
(* Vectors and maps are 0-based in the source; a Vec is a sequence here    *)
(* and At(v, i) reads v[i].  A FnvHashMap<Entity, usize> is a function     *)
(* whose domain is the set of its keys.                                    *)
(***************************************************************************)
EXTENDS Integers, Sequences, FiniteSets, TLC

VARIABLES entity_manager, transformation_system, rigid_body_system,
          health_system, drawable_system, text_system,
          particle_emitter_system, panicked, last, issued, destroyed, ops,
          focus

vars ==
    <<entity_manager, transformation_system, rigid_body_system,
      health_system, drawable_system, text_system,
      particle_emitter_system, panicked, last, issued, destroyed, ops,
      focus>>

systems ==
    <<transformation_system, rigid_body_system, health_system,
      drawable_system, text_system, particle_emitter_system>>

(***************************************************************************)
(* Bounds of the model.                                                    *)
(***************************************************************************)
\* calls made after Init in a run
MaxOps == 4

\* calls of RigidBodySystem::update made in a run of the dropped body
MaxSubSteps == 80

(***************************************************************************)
(* Vec helpers.                                                            *)
(***************************************************************************)
At(v, i) == v[i + 1]

Last(v) == v[Len(v)]

SetAt(v, i, x) == [v EXCEPT ![i + 1] = x]

\* Vec::swap_remove: the element at i is replaced by the last one
swap_remove(v, i) ==
    IF i = Len(v) - 1
    THEN SubSeq(v, 1, Len(v) - 1)
    ELSE [SubSeq(v, 1, Len(v) - 1) EXCEPT ![i + 1] = Last(v)]

\* HashMap::insert and HashMap::remove
map_insert(m, k, x) == (k :> x) @@ m

map_remove(m, k) == [e \in DOMAIN m \ {k} |-> m[e]]

EmptyMap == [e \in {} |-> 0]

(***************************************************************************)
(* Entity: a u32 packed as index:24 | generation:8.  The packing is        *)
(* one-to-one on (index mod 2^24, generation mod 2^8), so a handle is the  *)
(* pair of its two masked fields.                                          *)
(***************************************************************************)
ENTITY_INDEX_BITS == 24

ENTITY_GENERATION_BITS == 8

ENTITY_INDEX_MASK == (2 ^ ENTITY_INDEX_BITS) - 1

ENTITY_GENERATION_MASK == (2 ^ ENTITY_GENERATION_BITS) - 1

\* x & mask, for a mask of the form 2^k - 1
BitAnd(x, mask) == x % (mask + 1)

MINIMUM_FREE_INDICES == 1024

Entity_new(index, generation) ==
    [index |-> BitAnd(index, ENTITY_INDEX_MASK),
     generation |-> BitAnd(generation, ENTITY_GENERATION_MASK)]

Entity_null == [index |-> 0, generation |-> 0]

\* no handle: the value of last.entity and last.ret when a call has none
NoEntity == [index |-> -1, generation |-> -1]

(***************************************************************************)
(* EntityManager.                                                          *)
(***************************************************************************)
entity_is_active(em, entity) == At(em.active, entity.index)

entity_is_alive(em, entity) ==
    At(em.generation, entity.index) = entity.generation

\* mutant: the flag is written without the aliveness test
set_entity_is_active_of_any(em, entity, active) ==
    [em EXCEPT !.active = SetAt(em.active, entity.index, active)]

set_entity_is_active(em, entity, active) ==
    IF entity_is_alive(em, entity)
    THEN [em EXCEPT !.active = SetAt(em.active, entity.index, active)]
    ELSE em

toggle_entity_is_active(em, entity) ==
    IF entity_is_alive(em, entity)
    THEN [em EXCEPT !.active =
              SetAt(em.active, entity.index, ~At(em.active, entity.index))]
    ELSE em

\* mutant: the threshold test admits exactly MINIMUM_FREE_INDICES
recycles_at_threshold(em) == Len(em.free_indices) >= MINIMUM_FREE_INDICES

\* the branch create_new_entity takes
recycles(em) == Len(em.free_indices) > MINIMUM_FREE_INDICES

\* mutant: the recycled slot keeps the active flag of its previous occupant
create_new_entity_keeps_flag(em) ==
    IF recycles(em)
    THEN LET idx == Head(em.free_indices)
         IN  [em |-> [em EXCEPT !.free_indices = Tail(em.free_indices)],
              entity |-> Entity_new(idx, At(em.generation, idx))]
    ELSE LET idx == Len(em.generation)
         IN  [em |-> [em EXCEPT !.generation = Append(em.generation, 0),
                                !.active = Append(em.active, TRUE)],
              entity |-> Entity_new(idx, 0)]

\* returns the manager after the call and the handle returned
create_new_entity(em) ==
    IF recycles(em)
    THEN LET idx == Head(em.free_indices)
             em1 == [em EXCEPT !.free_indices = Tail(em.free_indices),
                               !.active = SetAt(em.active, idx, TRUE)]
         IN  [em |-> em1,
              entity |-> Entity_new(idx, At(em1.generation, idx))]
    ELSE LET em1 == [em EXCEPT !.generation = Append(em.generation, 0),
                               !.active = Append(em.active, TRUE)]
             idx == Len(em1.generation) - 1
         IN  [em |-> em1,
              entity |-> Entity_new(idx, At(em1.generation, idx))]

\* `generation[idx] += 1` on a u8: the sum wraps in a build without overflow
\* checks and panics in a build with them
destroy_overflows(em, entity) ==
    At(em.generation, entity.index) + 1 > ENTITY_GENERATION_MASK

\* the generation table is a Vec<u8>
WrapU8(x) == x % (2 ^ 8)

destroy_entity(em, entity) ==
    LET idx == entity.index
    IN  [em EXCEPT !.generation =
                       SetAt(em.generation, idx,
                             WrapU8(At(em.generation, idx) + 1)),
                   !.free_indices = Append(em.free_indices, idx)]

EntityManager_new ==
    create_new_entity([generation |-> <<>>, active |-> <<>>,
                       free_indices |-> <<>>]).em

(***************************************************************************)
(* Numbers.  An f32 is the pair <<m, e>> that stands for m * 2^e, with m   *)
(* a signed 24-bit significand (2^23 <= |m| < 2^24), or <<0, 0>> for       *)
(* zero.  Every operation rounds its exact result to the nearest such      *)
(* value, ties to even, as IEEE 754 does.  The exponent is not bounded:    *)
(* subnormals, infinities and NaN are not represented (no value of the     *)
(* model comes near them), and -0.0 is 0.0, from which no comparison of    *)
(* the program tells it.                                                   *)
(***************************************************************************)
F32_MANTISSA_DIGITS == 24

Abs(x) == IF x < 0 THEN -x ELSE x

Sign(x) == IF x < 0 THEN -1 ELSE 1

\* the number of binary digits of n, for 0 <= n < 2^4
BitLen4(n) ==
    IF n >= 4 THEN (IF n >= 8 THEN 4 ELSE 3)
    ELSE IF n >= 2 THEN 2 ELSE IF n = 1 THEN 1 ELSE 0

\* the number of binary digits of n, for 0 <= n < 2^16
BitLen16(n) ==
    IF n >= 256
    THEN (IF n >= 4096 THEN 12 + BitLen4(n \div 4096) ELSE 8 + BitLen4(n \div 256))
    ELSE IF n >= 16 THEN 4 + BitLen4(n \div 16) ELSE BitLen4(n)

\* the number of binary digits of n, for 0 <= n < 2^31
BitLen(n) == IF n >= 65536 THEN 16 + BitLen16(n \div 65536) ELSE BitLen16(n)

Zero == <<0, 0>>

\* Round for m > 0, which has drop digits more than a significand holds
RoundDigits(s, m, e, sticky, drop) ==
    IF drop <= 0
    THEN <<s * m * (2 ^ (-drop)), e + drop>>
    ELSE LET kept == m \div (2 ^ drop)
             rest == m % (2 ^ drop)
             half == 2 ^ (drop - 1)
             up == rest > half \/ (rest = half /\ (sticky \/ kept % 2 = 1))
         IN  IF up /\ kept + 1 = 2 ^ F32_MANTISSA_DIGITS
             THEN <<s * (2 ^ (F32_MANTISSA_DIGITS - 1)), e + drop + 1>>
             ELSE <<s * (IF up THEN kept + 1 ELSE kept), e + drop>>

\* the f32 nearest to s * (m + f) * 2^e, for s = 1 or -1, a natural m and a
\* fraction f which is 0 unless sticky, and then strictly between 0 and 1
Round(s, m, e, sticky) ==
    IF m = 0
    THEN Zero
    ELSE RoundDigits(s, m, e, sticky, BitLen(m) - F32_MANTISSA_DIGITS)

\* an integer literal
Num(i) == Round(Sign(i), Abs(i), 0, FALSE)

One == Num(1)

\* f32::MIN, the most negative finite f32
F32_MIN == <<-((2 ^ F32_MANTISSA_DIGITS) - 1), 104>>

RNeg(a) == <<-a[1], a[2]>>

RAbs(a) == <<Abs(a[1]), a[2]>>

\* a + b, for x the one of larger magnitude and y the other: x is given up
\* to six more digits and y loses the digits below them
AddAligned(x, y) ==
    LET d == x[2] - y[2]
        s == IF d < 6 THEN d ELSE 6
        r == d - s
        xm == Abs(x[1]) * (2 ^ s)
        ym == Abs(y[1]) \div (2 ^ r)
        sticky == Abs(y[1]) % (2 ^ r) # 0
        m == IF Sign(x[1]) = Sign(y[1])
             THEN xm + ym
             ELSE xm - ym - (IF sticky THEN 1 ELSE 0)
    IN  IF d >= 30 THEN x ELSE Round(Sign(x[1]), m, x[2] - s, sticky)

RAdd(a, b) ==
    IF a[1] = 0
    THEN b
    ELSE IF b[1] = 0
         THEN a
         ELSE IF a[2] > b[2] \/ (a[2] = b[2] /\ Abs(a[1]) >= Abs(b[1]))
              THEN AddAligned(a, b)
              ELSE AddAligned(b, a)

RSub(a, b) == RAdd(a, RNeg(b))

\* the 48-digit product of the significands is hi * 2^24 + lo
RMul(a, b) ==
    LET ah == Abs(a[1]) \div (2 ^ 12)
        al == Abs(a[1]) % (2 ^ 12)
        bh == Abs(b[1]) \div (2 ^ 12)
        bl == Abs(b[1]) % (2 ^ 12)
        mid == ah * bl + al * bh
        low == (mid % (2 ^ 12)) * (2 ^ 12) + al * bl
        hi == ah * bh + mid \div (2 ^ 12) + low \div (2 ^ 24)
        lo == low % (2 ^ 24)
    IN  IF a[1] = 0 \/ b[1] = 0
        THEN Zero
        ELSE Round(Sign(a[1]) * Sign(b[1]), hi * (2 ^ 6) + lo \div (2 ^ 18),
                   a[2] + b[2] + 18, lo % (2 ^ 18) # 0)

\* one more stage of the long division by d: k more digits of the quotient
DivStage(qr, d, k) ==
    <<qr[1] * (2 ^ k) + (qr[2] * (2 ^ k)) \div d, (qr[2] * (2 ^ k)) % d>>

\* a / b for b # 0: 26 digits of quotient below the integer part
RDiv(a, b) ==
    LET n == Abs(a[1])
        d == Abs(b[1])
        qr == DivStage(DivStage(DivStage(DivStage(<<n \div d, n % d>>, d, 7),
                                         d, 7), d, 6), d, 6)
    IN  IF a[1] = 0
        THEN Zero
        ELSE Round(Sign(a[1]) * Sign(b[1]), qr[1], a[2] - b[2] - 26, qr[2] # 0)

\* the literal n/d
Rat(n, d) == RDiv(Num(n), Num(d))

Half == Rat(1, 2)

\* a difference is never rounded to the other side of zero
RLt(a, b) == RSub(a, b)[1] < 0

RLe(a, b) == a = b \/ RLt(a, b)

RGt(a, b) == RLt(b, a)

RGe(a, b) == RLe(b, a)

RMin(a, b) == IF RLt(b, a) THEN b ELSE a

RMax(a, b) == IF RLt(a, b) THEN b ELSE a

\* `x as usize` for x >= 0: the integer part
AsUsize(a) ==
    IF a[2] >= 0
    THEN a[1] * (2 ^ a[2])
    ELSE IF -a[2] >= F32_MANTISSA_DIGITS THEN 0 ELSE a[1] \div (2 ^ (-a[2]))

Vec3_new(x, y, z) == <<x, y, z>>

V3(x, y, z) == Vec3_new(Num(x), Num(y), Num(z))

VAdd(u, v) == <<RAdd(u[1], v[1]), RAdd(u[2], v[2]), RAdd(u[3], v[3])>>

VSub(u, v) == <<RSub(u[1], v[1]), RSub(u[2], v[2]), RSub(u[3], v[3])>>

VScale(u, k) == <<RMul(u[1], k), RMul(u[2], k), RMul(u[3], k)>>

VDot(u, v) == RAdd(RAdd(RMul(u[1], v[1]), RMul(u[2], v[2])), RMul(u[3], v[3]))

Quat_identity == <<Zero, Zero, Zero, One>>

(***************************************************************************)
(* Option<T>: None, or Some(x).                                            *)
(***************************************************************************)
None == <<>>

Some(x) == <<x>>

is_some(o) == o # None

unwrap(o) == o[1]

\* match o { Some(x) => x, None => default }
unwrap_or(o, default) == IF o = None THEN default ELSE o[1]

(***************************************************************************)
(* TransformationSystem.                                                   *)
(***************************************************************************)
TransformationBuilder_new ==
    [position |-> None, scale |-> None, pivot |-> None, rotation |-> None]

at_position(b, position) == [b EXCEPT !.position = Some(position)]

with_scale(b, scale) == [b EXCEPT !.scale = Some(scale)]

TransformationBuilder_build(b, owner) ==
    [owner |-> owner,
     position |-> unwrap_or(b.position, V3(0, 0, 0)),
     scale |-> unwrap_or(b.scale, V3(1, 1, 1)),
     pivot |-> unwrap_or(b.pivot, V3(0, 0, 0)),
     rotation |-> unwrap_or(b.rotation, Quat_identity)]

TransformationSystem_new == [map |-> EmptyMap, data |-> <<>>]

entity_has_transformation(ts, entity) == entity \in DOMAIN ts.map

add_transformation_to_entity(ts, entity, initial_transformation) ==
    IF entity_has_transformation(ts, entity)
    THEN ts
    ELSE LET data == Append(ts.data,
                            TransformationBuilder_build(initial_transformation,
                                                        entity))
         IN  [ts EXCEPT !.data = data,
                        !.map = map_insert(ts.map, entity, Len(data) - 1)]

\* mutant: the record moved into the vacated slot keeps its old map entry
remove_transformation_no_repair(ts, entity) ==
    IF entity # Entity_null /\ entity \in DOMAIN ts.map
    THEN [ts EXCEPT !.data = swap_remove(ts.data, ts.map[entity]),
                    !.map = map_remove(ts.map, entity)]
    ELSE ts

\* mutant: the test for Entity::null() is left out
remove_transformation_of_null(ts, entity) ==
    LET found == entity \in DOMAIN ts.map
        index == ts.map[entity]
        data == IF found THEN swap_remove(ts.data, index) ELSE ts.data
        map1 == IF found THEN map_remove(ts.map, entity) ELSE ts.map
        map2 == IF found /\ data # <<>> /\ index # Len(data)
                THEN [map1 EXCEPT ![At(data, index).owner] = index]
                ELSE map1
    IN  [ts EXCEPT !.data = data, !.map = map2]

remove_transformation_from_entity(ts, entity) ==
    LET found == entity # Entity_null /\ entity \in DOMAIN ts.map
        index == ts.map[entity]
        data == IF found THEN swap_remove(ts.data, index) ELSE ts.data
        removed == found
        swapped == IF found /\ data # <<>> THEN <<TRUE, index>> ELSE <<FALSE, 0>>
        map1 == IF removed THEN map_remove(ts.map, entity) ELSE ts.map
        map2 == IF swapped[1] /\ swapped[2] # Len(data)
                THEN [map1 EXCEPT ![At(data, swapped[2]).owner] = swapped[2]]
                ELSE map1
    IN  [ts EXCEPT !.data = data, !.map = map2]

get_position(ts, entity) ==
    IF entity \in DOMAIN ts.map
    THEN Some(At(ts.data, ts.map[entity]).position)
    ELSE None

get_transformation_data(ts, entity) ==
    IF entity \in DOMAIN ts.map
    THEN Some(At(ts.data, ts.map[entity]))
    ELSE None

\* *get_position_mut(entity).unwrap() = position
put_position(ts, entity, position) ==
    [ts EXCEPT !.data =
        SetAt(ts.data, ts.map[entity],
              [At(ts.data, ts.map[entity]) EXCEPT !.position = position])]

set_position(ts, entity, position) ==
    IF entity # Entity_null /\ entity \in DOMAIN ts.map
    THEN put_position(ts, entity, position)
    ELSE ts

(***************************************************************************)
(* RigidBodySystem: the builder and the store.                             *)
(***************************************************************************)
RigidBodyBuilder_new ==
    [offset |-> None, extents |-> None, velocity |-> None,
     elasticity |-> None, inv_mass |-> None, gravity_immune |-> FALSE,
     damage |-> None, die_on_collision |-> FALSE]

with_offset(b, offset) == [b EXCEPT !.offset = Some(offset)]

with_extents(b, extents) == [b EXCEPT !.extents = Some(extents)]

with_velocity(b, velocity) == [b EXCEPT !.velocity = Some(velocity)]

with_elasticity(b, elasticity) == [b EXCEPT !.elasticity = Some(elasticity)]

is_gravity_immune(b) == [b EXCEPT !.gravity_immune = TRUE]

dealing_damage(b, damage) == [b EXCEPT !.damage = Some(damage)]

dies_on_collision(b) == [b EXCEPT !.die_on_collision = TRUE]

\* mutant: the inverse of any mass other than 0, negative ones included
with_mass_of_any_sign(b, mass) ==
    [b EXCEPT !.inv_mass = IF mass # Zero
                           THEN Some(RDiv(One, mass))
                           ELSE Some(Zero)]

with_mass(b, mass) ==
    [b EXCEPT !.inv_mass = IF RGt(mass, Zero)
                           THEN Some(RDiv(One, mass))
                           ELSE Some(Zero)]

RigidBodyBuilder_build(b, owner) ==
    [owner |-> owner,
     offset |-> unwrap_or(b.offset, V3(0, 0, 0)),
     extents |-> unwrap_or(b.extents, <<Half, Half, Half>>),
     velocity |-> unwrap_or(b.velocity, V3(0, 0, 0)),
     locomotion |-> V3(0, 0, 0),
     elasticity |-> unwrap_or(b.elasticity, Zero),
     inv_mass |-> unwrap_or(b.inv_mass, Zero),
     gravity_immune |-> b.gravity_immune,
     foothold |-> FALSE,
     damage |-> unwrap_or(b.damage, Zero),
     die_on_collision |-> b.die_on_collision]

RigidBodySystem_new ==
    [timer |-> <<Zero, Rat(1, 60)>>,
     gravity |-> <<Zero, Rat(-982, 100), Zero>>,
     map |-> EmptyMap,
     rigid_bodies |-> <<>>]

entity_has_rigid_body(rbs, entity) == entity \in DOMAIN rbs.map

\* mutant: the Transformation dependency is not checked
add_rigid_body_unchecked(rbs, entity, collider_builder, ts) ==
    IF entity \in DOMAIN rbs.map
    THEN rbs
    ELSE LET bodies == Append(rbs.rigid_bodies,
                              RigidBodyBuilder_build(collider_builder, entity))
         IN  [rbs EXCEPT !.rigid_bodies = bodies,
                         !.map = map_insert(rbs.map, entity, Len(bodies) - 1)]

\* mutant: a second add overwrites the record the entity already has
add_rigid_body_overwriting(rbs, entity, collider_builder, ts) ==
    IF entity \in DOMAIN rbs.map
    THEN [rbs EXCEPT !.rigid_bodies =
              SetAt(rbs.rigid_bodies, rbs.map[entity],
                    RigidBodyBuilder_build(collider_builder, entity))]
    ELSE IF entity_has_transformation(ts, entity)
         THEN add_rigid_body_unchecked(rbs, entity, collider_builder, ts)
         ELSE rbs

add_rigid_body_to_entity(rbs, entity, collider_builder, ts) ==
    IF entity \in DOMAIN rbs.map
    THEN rbs
    ELSE IF entity_has_transformation(ts, entity)
         THEN LET bodies == Append(rbs.rigid_bodies,
                                   RigidBodyBuilder_build(collider_builder,
                                                          entity))
              IN  [rbs EXCEPT !.rigid_bodies = bodies,
                              !.map = map_insert(rbs.map, entity,
                                                 Len(bodies) - 1)]
         ELSE rbs

remove_rigid_body_from_entity(rbs, entity) ==
    LET found == entity # Entity_null /\ entity \in DOMAIN rbs.map
        index == rbs.map[entity]
        bodies == IF found
                  THEN swap_remove(rbs.rigid_bodies, index)
                  ELSE rbs.rigid_bodies
        removed == found
        swapped == IF found /\ bodies # <<>> THEN <<TRUE, index>> ELSE <<FALSE, 0>>
        map1 == IF removed THEN map_remove(rbs.map, entity) ELSE rbs.map
        map2 == IF swapped[1] /\ swapped[2] # Len(bodies)
                THEN [map1 EXCEPT ![At(bodies, swapped[2]).owner] = swapped[2]]
                ELSE map1
    IN  [rbs EXCEPT !.rigid_bodies = bodies, !.map = map2]

set_velocity(rbs, entity, velocity) ==
    IF entity \in DOMAIN rbs.map
    THEN [rbs EXCEPT !.rigid_bodies =
              SetAt(rbs.rigid_bodies, rbs.map[entity],
                    [At(rbs.rigid_bodies, rbs.map[entity])
                        EXCEPT !.velocity = velocity])]
    ELSE rbs

set_locomotion(rbs, entity, locomotion) ==
    IF entity \in DOMAIN rbs.map
    THEN [rbs EXCEPT !.rigid_bodies =
              SetAt(rbs.rigid_bodies, rbs.map[entity],
                    [At(rbs.rigid_bodies, rbs.map[entity])
                        EXCEPT !.locomotion = locomotion])]
    ELSE rbs

entity_has_foothold(rbs, entity) ==
    IF entity # Entity_null /\ entity \in DOMAIN rbs.map
    THEN At(rbs.rigid_bodies, rbs.map[entity]).foothold
    ELSE FALSE

(***************************************************************************)
(* HealthSystem.                                                           *)
(***************************************************************************)
HealthBuilder_new == [hitpoints |-> None]

with_hitpoints(b, hitpoints) == [b EXCEPT !.hitpoints = Some(hitpoints)]

HealthBuilder_build(b, owner) ==
    [owner |-> owner, hitpoints |-> unwrap_or(b.hitpoints, <<One, One>>)]

HealthSystem_new == [map |-> EmptyMap, data |-> <<>>]

entity_has_health(hs, entity) == entity \in DOMAIN hs.map

add_health_to_entity(hs, entity, initial_health) ==
    IF entity # Entity_null
    THEN IF entity_has_health(hs, entity)
         THEN hs
         ELSE LET data == Append(hs.data,
                                 HealthBuilder_build(initial_health, entity))
              IN  [hs EXCEPT !.data = data,
                             !.map = map_insert(hs.map, entity, Len(data) - 1)]
    ELSE hs

remove_health_from_entity(hs, entity) ==
    LET found == entity # Entity_null /\ entity \in DOMAIN hs.map
        index == hs.map[entity]
        data == IF found THEN swap_remove(hs.data, index) ELSE hs.data
        removed == found
        swapped == IF found /\ data # <<>> THEN <<TRUE, index>> ELSE <<FALSE, 0>>
        map1 == IF removed THEN map_remove(hs.map, entity) ELSE hs.map
        map2 == IF swapped[1] /\ swapped[2] # Len(data)
                THEN [map1 EXCEPT ![At(data, swapped[2]).owner] = swapped[2]]
                ELSE map1
    IN  [hs EXCEPT !.data = data, !.map = map2]

\* data[index].hitpoints.0 = x
put_hitpoints(hs, index, x) ==
    [hs EXCEPT !.data =
        SetAt(hs.data, index,
              [At(hs.data, index) EXCEPT !.hitpoints[1] = x])]

heal(hs, entity, amount) ==
    IF entity # Entity_null /\ entity \in DOMAIN hs.map
    THEN put_hitpoints(hs, hs.map[entity],
                       RAdd(At(hs.data, hs.map[entity]).hitpoints[1], amount))
    ELSE hs

harm(hs, entity, amount) ==
    IF entity # Entity_null /\ entity \in DOMAIN hs.map
    THEN put_hitpoints(hs, hs.map[entity],
                       RSub(At(hs.data, hs.map[entity]).hitpoints[1], amount))
    ELSE hs

kill_entity(hs, entity) ==
    IF entity # Entity_null /\ entity \in DOMAIN hs.map
    THEN put_hitpoints(hs, hs.map[entity], F32_MIN)
    ELSE hs

\* One pass of the loop of HealthSystem::update over data[i..]: st holds the
\* health system, the entity manager, the owners passed to destroy_entity so
\* far (in order) and whether a generation increment overflowed.
RECURSIVE HealthSystem_update_from(_, _)
HealthSystem_update_from(st, i) ==
    IF i >= Len(st.hs.data)
    THEN st
    ELSE LET health == At(st.hs.data, i)
         IN  IF RGt(health.hitpoints[1], health.hitpoints[2])
             THEN HealthSystem_update_from(
                      [st EXCEPT !.hs = put_hitpoints(st.hs, i,
                                                      health.hitpoints[2])],
                      i + 1)
             ELSE IF RLe(health.hitpoints[1], Zero)
                  THEN HealthSystem_update_from(
                           [st EXCEPT
                              !.em = destroy_entity(st.em, health.owner),
                              !.destroyed = Append(st.destroyed, health.owner),
                              !.overflow =
                                  st.overflow
                                      \/ destroy_overflows(st.em, health.owner)],
                           i + 1)
                  ELSE HealthSystem_update_from(st, i + 1)

HealthSystem_update(hs, em) ==
    HealthSystem_update_from(
        [hs |-> hs, em |-> em, destroyed |-> <<>>, overflow |-> FALSE], 0)

(***************************************************************************)
(* RigidBodySystem::update.  The call works on several systems at once: w  *)
(* holds the rigid-body system, the transformation system and the health   *)
(* system as the call has left them so far, and panicked, set when an      *)
(* unwrap() of a missing position aborts the program.                      *)
(***************************************************************************)
\* mutant: the axes are tried z first, then y, then x
colliding_manifold_z_first(direction, overlap, penetration) ==
    Some([penetration |-> penetration,
          normal |->
              IF penetration = overlap[3]
              THEN IF RLt(direction[3], Zero)
                   THEN Vec3_new(Zero, Zero, Num(-1))
                   ELSE Vec3_new(Zero, Zero, One)
              ELSE IF penetration = overlap[2]
                   THEN IF RLt(direction[2], Zero)
                        THEN Vec3_new(Zero, Num(-1), Zero)
                        ELSE Vec3_new(Zero, One, Zero)
                   ELSE IF RLt(direction[1], Zero)
                        THEN Vec3_new(Num(-1), Zero, Zero)
                        ELSE Vec3_new(One, Zero, Zero)])

\* RigidBody::colliding from `let mut manifold` on
colliding_manifold(direction, overlap, penetration) ==
    Some([penetration |-> penetration,
          normal |->
              IF penetration = overlap[1]
              THEN IF RLt(direction[1], Zero)
                   THEN Vec3_new(Num(-1), Zero, Zero)
                   ELSE Vec3_new(One, Zero, Zero)
              ELSE IF penetration = overlap[2]
                   THEN IF RLt(direction[2], Zero)
                        THEN Vec3_new(Zero, Num(-1), Zero)
                        ELSE Vec3_new(Zero, One, Zero)
                   ELSE IF RLt(direction[3], Zero)
                        THEN Vec3_new(Zero, Zero, Num(-1))
                        ELSE Vec3_new(Zero, Zero, One)])

\* RigidBody::colliding from `if overlap.x > 0.0 && ...` on
colliding_overlap(direction, overlap) ==
    IF /\ RGt(overlap[1], Zero)
       /\ RGt(overlap[2], Zero)
       /\ RGt(overlap[3], Zero)
    THEN colliding_manifold(direction, overlap,
                            RMin(overlap[1], RMin(overlap[2], overlap[3])))
    ELSE None

\* RigidBody::colliding from `let overlap` on
colliding_along(self, other, direction) ==
    colliding_overlap(
        direction,
        Vec3_new(
            RSub(RAdd(self.extents[1], other.extents[1]), RAbs(direction[1])),
            RSub(RAdd(self.extents[2], other.extents[2]), RAbs(direction[2])),
            RSub(RAdd(self.extents[3], other.extents[3]), RAbs(direction[3]))))

\* RigidBody::colliding: Some(manifold) or None
colliding(self, other, positions) ==
    colliding_along(self, other, VSub(positions[2], positions[1]))

\* rigid_bodies[i] = body
put_body(w, i, body) ==
    [w EXCEPT !.rbs.rigid_bodies = SetAt(w.rbs.rigid_bodies, i, body)]

\* mutant: the locomotion is kept
move_collider_keeping_locomotion(w, first, collider, velocity) ==
    [put_body(w, first,
              [collider EXCEPT !.velocity = velocity, !.foothold = FALSE])
        EXCEPT !.ts =
            put_position(
                w.ts, collider.owner,
                VAdd(unwrap(get_position(w.ts, collider.owner)),
                     VScale(VAdd(velocity, collider.locomotion),
                            w.rbs.timer[2])))]

\* the body of the loop of update_colliders for the collider at first, from
\* `*pos +=` on; velocity is its velocity after `collider.velocity +=`
move_collider(w, first, collider, velocity) ==
    [put_body(w, first,
              [collider EXCEPT !.velocity = velocity,
                               !.locomotion = Vec3_new(Zero, Zero, Zero),
                               !.foothold = FALSE])
        EXCEPT !.ts =
            put_position(
                w.ts, collider.owner,
                VAdd(unwrap(get_position(w.ts, collider.owner)),
                     VScale(VAdd(velocity, collider.locomotion),
                            w.rbs.timer[2])))]

\* the loop of update_colliders over rigid_bodies[first..last]
RECURSIVE update_colliders(_, _, _)
update_colliders(w, first, last_) ==
    IF w.panicked \/ first >= last_
    THEN w
    ELSE LET collider == At(w.rbs.rigid_bodies, first)
         IN  IF get_position(w.ts, collider.owner) = None
             THEN [w EXCEPT !.panicked = TRUE]
             ELSE update_colliders(
                      move_collider(
                          w, first, collider,
                          IF /\ RGt(collider.inv_mass, Zero)
                             /\ ~collider.gravity_immune
                          THEN VAdd(collider.velocity,
                                    VScale(w.rbs.gravity, w.rbs.timer[2]))
                          ELSE collider.velocity),
                      first + 1, last_)

\* the foothold test without its second branch
set_foothold_of_j(w, i, j, manifold) ==
    LET bi == At(w.rbs.rigid_bodies, i)
        bj == At(w.rbs.rigid_bodies, j)
    IN  IF bi.inv_mass = Zero /\ manifold.normal = Vec3_new(Zero, One, Zero)
        THEN put_body(w, j, [bj EXCEPT !.foothold = TRUE])
        ELSE w

\* mutant: a static body gives a foothold above and below itself
set_foothold_of_either_side(w, i, j, manifold) ==
    LET bi == At(w.rbs.rigid_bodies, i)
        bj == At(w.rbs.rigid_bodies, j)
    IN  IF /\ bi.inv_mass = Zero
           /\ manifold.normal \in {Vec3_new(Zero, One, Zero),
                                   Vec3_new(Zero, Num(-1), Zero)}
        THEN put_body(w, j, [bj EXCEPT !.foothold = TRUE])
        ELSE IF /\ bj.inv_mass = Zero
                /\ manifold.normal \in {Vec3_new(Zero, One, Zero),
                                        Vec3_new(Zero, Num(-1), Zero)}
             THEN put_body(w, i, [bi EXCEPT !.foothold = TRUE])
             ELSE w

\* the foothold test on a manifold of the pair (i, j)
set_foothold(w, i, j, manifold) ==
    LET bi == At(w.rbs.rigid_bodies, i)
        bj == At(w.rbs.rigid_bodies, j)
    IN  IF bi.inv_mass = Zero /\ manifold.normal = Vec3_new(Zero, One, Zero)
        THEN put_body(w, j, [bj EXCEPT !.foothold = TRUE])
        ELSE IF /\ bj.inv_mass = Zero
                /\ manifold.normal = Vec3_new(Zero, Num(-1), Zero)
             THEN put_body(w, i, [bi EXCEPT !.foothold = TRUE])
             ELSE w

\* mutant: harm alone, die_on_collision is not looked at
deal_damage_sparing(hs, body, damage) ==
    IF entity_has_health(hs, body.owner)
    THEN harm(hs, body.owner, damage)
    ELSE hs

\* harm(owner, damage) and, for a body that dies on collision, kill_entity,
\* when the owner has Health
deal_damage(hs, body, damage) ==
    IF entity_has_health(hs, body.owner)
    THEN IF body.die_on_collision
         THEN kill_entity(harm(hs, body.owner, damage), body.owner)
         ELSE harm(hs, body.owner, damage)
    ELSE hs

restitution_of_the_softer(bi, bj) == RMin(bi.elasticity, bj.elasticity)

\* let e = self.rigid_bodies[i].elasticity.max(self.rigid_bodies[j].elasticity)
restitution(bi, bj) == RMax(bi.elasticity, bj.elasticity)

\* What one pass through `Some(manifold) =>` for the pair (i, j) did: the
\* manifold, rv.dot(normal), whether the pass left at `continue`, the number
\* of the sub-step, and the two bodies, their positions and the HealthSystem
\* before (w) and after (w3).
Collision(w, w3, i, j, manifold, normal_vel) ==
    LET owners == <<At(w.rbs.rigid_bodies, i).owner,
                    At(w.rbs.rigid_bodies, j).owner>>
    IN  [i |-> i, j |-> j, manifold |-> manifold, normal_vel |-> normal_vel,
         skipped |-> RGt(normal_vel, Zero), step |-> w.steps,
         before |-> [bodies |-> <<At(w.rbs.rigid_bodies, i),
                                  At(w.rbs.rigid_bodies, j)>>,
                     positions |-> <<get_position(w.ts, owners[1]),
                                     get_position(w.ts, owners[2])>>,
                     hs |-> w.hs],
         after |-> [bodies |-> <<At(w3.rbs.rigid_bodies, i),
                                 At(w3.rbs.rigid_bodies, j)>>,
                    positions |-> <<get_position(w3.ts, owners[1]),
                                    get_position(w3.ts, owners[2])>>,
                    hs |-> w3.hs]]

\* *get_position_mut(entity).unwrap() -= correction
sub_position(ts, entity, correction) ==
    put_position(ts, entity, VSub(unwrap(get_position(ts, entity)), correction))

\* *get_position_mut(entity).unwrap() += correction
add_position(ts, entity, correction) ==
    put_position(ts, entity, VAdd(unwrap(get_position(ts, entity)), correction))

\* mutant: body j is not moved
correct_and_damage_one_way(w2, bi, bj, corrections) ==
    [w2 EXCEPT
        !.ts = sub_position(w2.ts, bi.owner, corrections[1]),
        !.hs = deal_damage(deal_damage(w2.hs, bi, bj.damage), bj, bi.damage)]

\* `Some(manifold) =>` from `*get_position_mut(...) -= corrections.0` on:
\* the bodies of w2 have their new velocities, bi and bj are the two bodies
correct_and_damage(w2, bi, bj, corrections) ==
    [w2 EXCEPT
        !.ts = add_position(sub_position(w2.ts, bi.owner, corrections[1]),
                            bj.owner, corrections[2]),
        !.hs = deal_damage(deal_damage(w2.hs, bi, bj.damage), bj, bi.damage)]

\* `Some(manifold) =>` from `self.rigid_bodies[i].velocity -=` on
apply_impulse(w1, i, j, manifold, impulse, mass_factor) ==
    LET bi == At(w1.rbs.rigid_bodies, i)
        bj == At(w1.rbs.rigid_bodies, j)
        masses == <<bi.inv_mass, bj.inv_mass>>
    IN  correct_and_damage(
            put_body(
                put_body(w1, i,
                         [bi EXCEPT !.velocity =
                              VSub(bi.velocity, VScale(impulse, masses[1]))]),
                j,
                [bj EXCEPT !.velocity =
                     VAdd(bj.velocity, VScale(impulse, masses[2]))]),
            bi, bj,
            <<VScale(VScale(VScale(manifold.normal, mass_factor), masses[1]),
                     manifold.penetration),
              VScale(VScale(VScale(manifold.normal, mass_factor), masses[2]),
                     manifold.penetration)>>)

\* `Some(manifold) =>` from `if normal_vel > 0.0` on
resolve_closing(w1, i, j, manifold, normal_vel) ==
    LET bi == At(w1.rbs.rigid_bodies, i)
        bj == At(w1.rbs.rigid_bodies, j)
        masses == <<bi.inv_mass, bj.inv_mass>>
    IN  IF RGt(normal_vel, Zero)
        THEN w1
        ELSE apply_impulse(
                 w1, i, j, manifold,
                 VScale(manifold.normal,
                        RDiv(RMul(RNeg(RAdd(One, restitution(bi, bj))),
                                  normal_vel),
                             RAdd(masses[1], masses[2]))),
                 RDiv(One, RAdd(masses[1], masses[2])))

\* the pass for the pair (i, j) that led from w to w3, added to the log
log_collision(w, w3, i, j, manifold, normal_vel) ==
    [w3 EXCEPT !.log = Append(w.log, Collision(w, w3, i, j, manifold,
                                              normal_vel))]

\* `Some(manifold) =>` from `let rv` on: w1 is w after the foothold test
resolve_after_foothold(w, w1, i, j, manifold, normal_vel) ==
    log_collision(w, resolve_closing(w1, i, j, manifold, normal_vel),
                  i, j, manifold, normal_vel)

\* rv.dot(manifold.normal), for rv the velocity of body j relative to body i
normal_velocity(w1, i, j, manifold) ==
    VDot(VSub(At(w1.rbs.rigid_bodies, j).velocity,
              At(w1.rbs.rigid_bodies, i).velocity),
         manifold.normal)

\* the body of `Some(manifold) =>` for the pair (i, j)
resolve_collision(w, i, j, manifold) ==
    resolve_after_foothold(
        w, set_foothold(w, i, j, manifold), i, j, manifold,
        normal_velocity(set_foothold(w, i, j, manifold), i, j, manifold))

\* match self.rigid_bodies[i].colliding(...)
match_colliding(w, i, j, manifold) ==
    IF manifold = None
    THEN w
    ELSE resolve_collision(w, i, j, unwrap(manifold))

\* the body of the loop over j for the pair (i, j); position_1 is the
\* position of body i read before the loop over j began
test_pair(w, i, j, position_1) ==
    LET bi == At(w.rbs.rigid_bodies, i)
        bj == At(w.rbs.rigid_bodies, j)
        pos == get_position(w.ts, bj.owner)
    IN  IF bi.inv_mass # Zero \/ bj.inv_mass # Zero
        THEN IF pos = None
             THEN [w EXCEPT !.panicked = TRUE]
             ELSE match_colliding(
                      w, i, j,
                      colliding(bi, bj,
                                <<position_1, VAdd(unwrap(pos), bj.offset)>>))
        ELSE w

\* for j in j..rigid_bodies.len()
RECURSIVE pairs_from(_, _, _, _)
pairs_from(w, i, j, position_1) ==
    IF w.panicked \/ j >= Len(w.rbs.rigid_bodies)
    THEN w
    ELSE pairs_from(test_pair(w, i, j, position_1), i, j + 1, position_1)

\* for i in i..(rigid_bodies.len() - 1)
RECURSIVE bodies_from(_, _)
bodies_from(w, i) ==
    IF w.panicked \/ i >= Len(w.rbs.rigid_bodies) - 1
    THEN w
    ELSE LET bi == At(w.rbs.rigid_bodies, i)
             pos == get_position(w.ts, bi.owner)
         IN  IF pos = None
             THEN [w EXCEPT !.panicked = TRUE]
             ELSE bodies_from(
                      pairs_from(w, i, i + 1, VAdd(unwrap(pos), bi.offset)),
                      i + 1)

\* the positions of the owners of the bodies of w, in the order of the bodies
positions_of(w) ==
    [k \in DOMAIN w.rbs.rigid_bodies |->
        get_position(w.ts, w.rbs.rigid_bodies[k].owner)]

\* What update_colliders did in one sub-step: the bodies and their positions
\* before (w) and after (w1).
Integration(w, w1) ==
    [step |-> w.steps,
     before |-> [bodies |-> w.rbs.rigid_bodies, positions |-> positions_of(w)],
     after |-> [bodies |-> w1.rbs.rigid_bodies, positions |-> positions_of(w1)]]

\* the call of update_colliders that led from w to w1, added to moved
log_integration(w, w1) ==
    [w1 EXCEPT !.moved = Append(w.moved, Integration(w, w1))]

\* self.update_colliders(0, count)
integrate(w, count) == log_integration(w, update_colliders(w, 0, count))

\* one pass of the while loop: a fixed step is taken off the accumulator,
\* the bodies are integrated and the pairs resolved
sub_step(w, count) ==
    bodies_from(
        integrate(
            [w EXCEPT !.rbs.timer[1] = RSub(w.rbs.timer[1], w.rbs.timer[2]),
                      !.steps = w.steps + 1],
            count),
        0)

\* while timer.0 >= timer.1 && count > 0
RECURSIVE sub_steps(_, _)
sub_steps(w, count) ==
    IF ~w.panicked /\ RGe(w.rbs.timer[1], w.rbs.timer[2]) /\ count > 0
    THEN sub_steps(sub_step(w, count), count)
    ELSE w

\* the three systems at a point of a call of RigidBodySystem::update
World(rbs, ts, hs) ==
    [rbs |-> rbs, ts |-> ts, hs |-> hs, panicked |-> FALSE, steps |-> 0,
     log |-> <<>>, moved |-> <<>>]

\* returns the three systems after the call, whether it panicked, the
\* number of sub-steps it ran and, in log and moved, the collisions it went
\* through and the integrations it made
RigidBodySystem_update(rbs, dt, ts, hs) ==
    sub_steps(World([rbs EXCEPT !.timer[1] = RAdd(rbs.timer[1], dt)], ts, hs),
              Len(rbs.rigid_bodies))

(***************************************************************************)
(* RigidBodySystem::ray_cast.  A ray is (origin, direction).               *)
(***************************************************************************)
\* 1.0 / 0.0, written as the first power of two above f32::MAX; no f32
\* operator of this module is applied to it
F32_INFINITY == <<2 ^ (F32_MANTISSA_DIGITS - 1), 105>>

\* 1.0 / x
Reciprocal(x) == IF x = Zero THEN F32_INFINITY ELSE RDiv(One, x)

\* (v).length_squared()
length_squared(v) == VDot(v, v)

\* ray_vs_aabb_intersecting from `let mut tmin` on
slab_intersecting(t1, t2) == RGt(RMax(t1, t2), RMax(RMin(t1, t2), Zero))

\* aabb is (position, extents) and ray (origin, direction, inverse of the
\* direction).  The loop over the axes y and z computes _tmin and _tmax and
\* drops them: the result is the slab test along x alone.
ray_vs_aabb_intersecting(aabb, ray) ==
    slab_intersecting(
        RMul(RSub(RSub(aabb[1][1], aabb[2][1]), ray[1][1]), ray[3][1]),
        RMul(RSub(RAdd(aabb[1][1], aabb[2][1]), ray[1][1]), ray[3][1]))

\* mutant: a hit as far as the nearest so far replaces it
nearest_or_last(result, distance, owner) ==
    IF result = None
    THEN Some(<<distance, owner>>)
    ELSE IF RLe(distance, unwrap(result)[1])
         THEN Some(<<distance, owner>>)
         ELSE result

\* `match result`: the result after a hit of owner at the distance given
nearest(result, distance, owner) ==
    IF result = None
    THEN Some(<<distance, owner>>)
    ELSE IF RLt(distance, unwrap(result)[1])
         THEN Some(<<distance, owner>>)
         ELSE result

\* the loop of ray_cast over rigid_bodies[k..]
RECURSIVE ray_cast_from(_, _, _, _, _, _, _)
ray_cast_from(rbs, ray, inv, ts, user, k, result) ==
    IF k >= Len(rbs.rigid_bodies)
    THEN [panicked |-> FALSE, result |-> result]
    ELSE LET collider == At(rbs.rigid_bodies, k)
             pos == get_position(ts, collider.owner)
             aabb == <<unwrap(pos), collider.extents>>
         IN  IF pos = None
             THEN [panicked |-> TRUE, result |-> None]
             ELSE ray_cast_from(
                      rbs, ray, inv, ts, user, k + 1,
                      IF /\ collider.owner # user
                         /\ ray_vs_aabb_intersecting(aabb, <<ray[1], ray[2], inv>>)
                      THEN nearest(result,
                                   length_squared(VSub(aabb[1], ray[1])),
                                   collider.owner)
                      ELSE result)

\* returns the Option the call returns, or panicked when a body has no
\* position to unwrap
ray_cast(rbs, ray, ts, user) ==
    ray_cast_from(rbs, ray,
                  <<Reciprocal(ray[2][1]), Reciprocal(ray[2][2]),
                    Reciprocal(ray[2][3])>>,
                  ts, user, 0, None)

(***************************************************************************)
(* DrawableSystem and TextSystem.  The renderer is an external resource    *)
(* manager: its lookups are taken to succeed, and a shader, a model and a  *)
(* texture set are named by the names they were asked for.                 *)
(***************************************************************************)
DrawableBuilder_new ==
    [shader |-> None, model |-> None, texture_set |-> None, uv_scale |-> None,
     uv_offset |-> None, tint |-> None, emissive_tint |-> None]

using_shader(b, shader_name) == [b EXCEPT !.shader = Some(shader_name)]

using_model(b, model_name) == [b EXCEPT !.model = Some(model_name)]

using_texture_set(b, albedo, emissive) ==
    [b EXCEPT !.texture_set = Some(<<albedo, emissive>>)]

with_tint(b, tint) == [b EXCEPT !.tint = Some(tint)]

DrawableBuilder_build(b, owner) ==
    [owner |-> owner,
     shader |-> unwrap_or(b.shader, "sprite"),
     model |-> unwrap_or(b.model, "cube"),
     texture_set |-> unwrap_or(b.texture_set, <<"pixel.png", "black.png">>),
     uv_scale |-> unwrap_or(b.uv_scale, <<One, One>>),
     uv_offset |-> unwrap_or(b.uv_offset, <<Zero, Zero>>),
     tint |-> unwrap_or(b.tint, <<One, One, One, One>>),
     emissive_tint |-> unwrap_or(b.emissive_tint, <<Zero, Zero, Zero, Zero>>)]

DrawableSystem_new == [map |-> EmptyMap, data |-> <<>>]

entity_has_drawable(ds, entity) == entity \in DOMAIN ds.map

add_drawable_to_entity(ds, entity, ts, initial_data) ==
    IF entity \in DOMAIN ds.map
    THEN ds
    ELSE IF entity_has_transformation(ts, entity)
         THEN LET data == Append(ds.data,
                                 DrawableBuilder_build(initial_data, entity))
              IN  [ds EXCEPT !.data = data,
                             !.map = map_insert(ds.map, entity, Len(data) - 1)]
         ELSE ds

remove_drawable_from_entity(ds, entity) ==
    LET found == entity # Entity_null /\ entity \in DOMAIN ds.map
        index == ds.map[entity]
        data == IF found THEN swap_remove(ds.data, index) ELSE ds.data
        removed == found
        swapped == IF found /\ data # <<>> THEN <<TRUE, index>> ELSE <<FALSE, 0>>
        map1 == IF removed THEN map_remove(ds.map, entity) ELSE ds.map
        map2 == IF swapped[1] /\ swapped[2] # Len(data)
                THEN [map1 EXCEPT ![At(data, swapped[2]).owner] = swapped[2]]
                ELSE map1
    IN  [ds EXCEPT !.data = data, !.map = map2]

TextBuilder_new ==
    [shader |-> None, model |-> None, texture_set |-> None, uv_scale |-> None,
     tint |-> None, emissive_tint |-> None, offset |-> None, text |-> None]

with_text(b, text) == [b EXCEPT !.text = Some(text)]

TextBuilder_build(b, owner) ==
    [owner |-> owner,
     shader |-> unwrap_or(b.shader, "test"),
     model |-> unwrap_or(b.model, "cube"),
     texture_set |-> unwrap_or(b.texture_set, <<"font.png", "black.png">>),
     character_size |-> <<Num(6), Num(6)>>,
     uv_scale |-> unwrap_or(b.uv_scale, <<One, One>>),
     tint |-> unwrap_or(b.tint, <<One, One, One, One>>),
     emissive_tint |-> unwrap_or(b.emissive_tint, <<Zero, Zero, Zero, Zero>>),
     offset |-> unwrap_or(b.offset, V3(0, 0, 0)),
     text |-> unwrap_or(b.text, "Text")]

TextSystem_new == [map |-> EmptyMap, data |-> <<>>]

entity_has_text(xs, entity) == entity \in DOMAIN xs.map

add_text_to_entity(xs, entity, ts, initial_data) ==
    IF entity \in DOMAIN xs.map
    THEN xs
    ELSE IF entity_has_transformation(ts, entity)
         THEN LET data == Append(xs.data,
                                 TextBuilder_build(initial_data, entity))
              IN  [xs EXCEPT !.data = data,
                             !.map = map_insert(xs.map, entity, Len(data) - 1)]
         ELSE xs

remove_text_from_entity(xs, entity) ==
    LET found == entity # Entity_null /\ entity \in DOMAIN xs.map
        index == xs.map[entity]
        data == IF found THEN swap_remove(xs.data, index) ELSE xs.data
        removed == found
        swapped == IF found /\ data # <<>> THEN <<TRUE, index>> ELSE <<FALSE, 0>>
        map1 == IF removed THEN map_remove(xs.map, entity) ELSE xs.map
        map2 == IF swapped[1] /\ swapped[2] # Len(data)
                THEN [map1 EXCEPT ![At(data, swapped[2]).owner] = swapped[2]]
                ELSE map1
    IN  [xs EXCEPT !.data = data, !.map = map2]

(***************************************************************************)
(* ParticleEmitterSystem.  A call that takes several systems returns a     *)
(* record of the systems after the call: em, ts, rbs, ds, ps.              *)
(***************************************************************************)
Range_new(min, max) == [min |-> min, diff |-> RSub(max, min)]

get_min(r) == r.min

get_max(r) == RAdd(r.min, r.diff)

ParticleEmitterBuilder_new == [kind |-> "ParticleEmitterBuilder"]

\* the number of pooled particles: (lifetime.max * (1 / emission step) + 0.5) as usize
particle_count(pe) ==
    AsUsize(RAdd(RMul(get_max(pe.particle_lifetime),
                      RDiv(One, pe.emission_timer[2])),
                 Half))

\* the builders every pooled particle is made from
particle_transformation ==
    with_scale(TransformationBuilder_new, <<Rat(1, 64), Rat(1, 64), Rat(1, 64)>>)

particle_rigid_body ==
    is_gravity_immune(
        with_elasticity(
            with_mass(
                with_extents(RigidBodyBuilder_new,
                             <<Rat(1, 128), Rat(1, 128), Rat(1, 128)>>),
                Rat(1, 10000)),
            Rat(1, 4)))

particle_drawable ==
    using_texture_set(
        using_model(using_shader(DrawableBuilder_new, "test"), "cube"),
        "box.png", "black.png")

\* the emitter record before its particles are pooled; owner is filled in
\* by ParticleEmitterBuilder_build
ParticleEmitterData_new ==
    [owner |-> NoEntity,
     particle_lifetime |-> Range_new(Rat(1, 4), Rat(1, 2)),
     particle_velocity |-> <<Range_new(Rat(-1, 4), Rat(1, 4)),
                             Range_new(Rat(-1, 4), Rat(1, 4)),
                             Range_new(Rat(-1, 4), Rat(1, 4))>>,
     emission_timer |-> <<Zero, Rat(1, 50)>>,
     particles |-> <<>>]

\* One pass of the loop of ParticleEmitterBuilder::build, n particles to go:
\* w holds the systems and the emitter under construction.
RECURSIVE build_particles(_, _)
build_particles(w, n) ==
    IF n = 0
    THEN w
    ELSE LET c == create_new_entity(w.em)
             p == c.entity
             em1 == set_entity_is_active(c.em, p, FALSE)
             ts1 == add_transformation_to_entity(w.ts, p, particle_transformation)
             rbs1 == add_rigid_body_to_entity(w.rbs, p, particle_rigid_body, ts1)
             ds1 == add_drawable_to_entity(w.ds, p, ts1, particle_drawable)
         IN  build_particles(
                 [w EXCEPT !.em = em1, !.ts = ts1, !.rbs = rbs1, !.ds = ds1,
                           !.pe.particles =
                               Append(w.pe.particles, <<p, Zero, Zero>>)],
                 n - 1)

\* returns the systems after the call and, in pe, the emitter record built
ParticleEmitterBuilder_build(b, owner, em, ts, rbs, ds) ==
    LET pe == [ParticleEmitterData_new EXCEPT !.owner = owner]
    IN  build_particles([em |-> em, ts |-> ts, rbs |-> rbs, ds |-> ds,
                         pe |-> pe],
                        particle_count(pe))

ParticleEmitterSystem_new == [map |-> EmptyMap, data |-> <<>>]

entity_has_particle_emitter(ps, entity) == entity \in DOMAIN ps.map

add_particle_emitter_to_entity(ps, entity, init_data, em, ts, rbs, ds) ==
    IF entity_has_particle_emitter(ps, entity)
    THEN [ps |-> ps, em |-> em, ts |-> ts, rbs |-> rbs, ds |-> ds]
    ELSE LET w == ParticleEmitterBuilder_build(init_data, entity, em, ts, rbs, ds)
             data == Append(ps.data, w.pe)
         IN  [ps |-> [ps EXCEPT !.data = data,
                                !.map = map_insert(ps.map, entity,
                                                   Len(data) - 1)],
              em |-> w.em, ts |-> w.ts, rbs |-> w.rbs, ds |-> w.ds]

\* the loop over the particles of the removed emitter
RECURSIVE destroy_particles(_, _, _)
destroy_particles(em, particles, i) ==
    IF i >= Len(particles)
    THEN em
    ELSE destroy_particles(destroy_entity(em, At(particles, i)[1]),
                           particles, i + 1)

\* returns the emitter system and the entity manager after the call
remove_particle_emitter_from_entity(ps, entity, em) ==
    LET found == entity # Entity_null /\ entity \in DOMAIN ps.map
        index == ps.map[entity]
        em1 == IF found
               THEN destroy_particles(em, At(ps.data, index).particles, 0)
               ELSE em
        data == IF found THEN swap_remove(ps.data, index) ELSE ps.data
        removed == found
        swapped == IF found /\ data # <<>> THEN <<TRUE, index>> ELSE <<FALSE, 0>>
        map1 == IF removed THEN map_remove(ps.map, entity) ELSE ps.map
        map2 == IF swapped[1] /\ swapped[2] # Len(data)
                THEN [map1 EXCEPT ![At(data, swapped[2]).owner] = swapped[2]]
                ELSE map1
    IN  [ps |-> [ps EXCEPT !.data = data, !.map = map2], em |-> em1]

(***************************************************************************)
(* The state machine.  last records the call just made (its name, the      *)
(* handle and the argument given, the handle returned); issued is the set  *)
(* of handles create_new_entity has returned, destroyed the set of handles *)
(* destroy_entity has been called on, ops the number of calls made.        *)
(* panicked is set when a call aborts the program.  focus is the set of    *)
(* component stores the driver of a run makes calls on.                    *)
(***************************************************************************)
Call(op, entity, arg, ret) ==
    [op |-> op, entity |-> entity, arg |-> arg, ret |-> ret]

NoArg == "none"

\* every system as its constructor leaves it
SystemsNew ==
    /\ transformation_system = TransformationSystem_new
    /\ rigid_body_system = RigidBodySystem_new
    /\ health_system = HealthSystem_new
    /\ drawable_system = DrawableSystem_new
    /\ text_system = TextSystem_new
    /\ particle_emitter_system = ParticleEmitterSystem_new

(***************************************************************************)
(* The entity manager alone.  It starts either as EntityManager::new()     *)
(* leaves it, or churned: after new(), three create_new_entity calls       *)
(* (handles 1, 2 and 3 of generation 0), set_entity_is_active(1, a),       *)
(* destroy_entity of handle 1, of handle 2, and MINIMUM_FREE_INDICES - 2   *)
(* times destroy_entity of handle 3, which leaves exactly                  *)
(* MINIMUM_FREE_INDICES indices pending; or after one entity was destroyed *)
(* over and over, MINIMUM_FREE_INDICES + 2 times, as it is by a            *)
(* HealthSystem::update in every frame once its hitpoints are <= 0.        *)
(***************************************************************************)
\* n calls of destroy_entity(entity), one after the other
destroy_entity_times(em, entity, n) ==
    LET idx == entity.index
    IN  [em EXCEPT !.generation =
                       SetAt(em.generation, idx,
                             WrapU8(At(em.generation, idx) + n)),
                   !.free_indices =
                       em.free_indices \o [k \in 1..n |-> idx]]

Churned(a) ==
    LET c1 == create_new_entity(EntityManager_new)
        c2 == create_new_entity(c1.em)
        c3 == create_new_entity(c2.em)
        em1 == set_entity_is_active(c3.em, c1.entity, a)
        em2 == destroy_entity(destroy_entity(em1, c1.entity), c2.entity)
    IN  [em |-> destroy_entity_times(em2, c3.entity, MINIMUM_FREE_INDICES - 2),
         issued |-> {Entity_null, c1.entity, c2.entity, c3.entity},
         destroyed |-> {c1.entity, c2.entity, c3.entity}]

\* the null handle was destroyed first and then one entity over and over:
\* index 0 is the index pending longest of MINIMUM_FREE_INDICES
NullChurned ==
    LET c1 == create_new_entity(EntityManager_new)
        em1 == destroy_entity(c1.em, Entity_null)
    IN  [em |-> destroy_entity_times(em1, c1.entity, MINIMUM_FREE_INDICES - 1),
         issued |-> {Entity_null, c1.entity},
         destroyed |-> {Entity_null, c1.entity}]

\* one entity was destroyed MINIMUM_FREE_INDICES + 2 times
Overdestroyed ==
    LET c1 == create_new_entity(EntityManager_new)
    IN  [em |-> destroy_entity_times(c1.em, c1.entity,
                                     MINIMUM_FREE_INDICES + 2),
         issued |-> {Entity_null, c1.entity},
         destroyed |-> {c1.entity}]

Fresh ==
    [em |-> EntityManager_new, issued |-> {Entity_null}, destroyed |-> {}]

InitEM ==
    /\ \E s \in {Fresh, NullChurned, Overdestroyed}
                  \cup {Churned(a) : a \in BOOLEAN} :
          /\ entity_manager = s.em
          /\ issued = s.issued
          /\ destroyed = s.destroyed
    /\ SystemsNew
    /\ focus = {}
    /\ panicked = FALSE
    /\ last = Call("new", NoEntity, NoArg, NoEntity)
    /\ ops = 0

\* what a caller can observe of the manager before a create_new_entity call:
\* the number of pending indices, the index pending longest and its active
\* flag (when there is one), the length of the generation table
Observed(em) ==
    [pending |-> Len(em.free_indices),
     oldest |-> IF em.free_indices = <<>> THEN -1 ELSE Head(em.free_indices),
     was_active |-> IF em.free_indices = <<>>
                    THEN TRUE
                    ELSE At(em.active, Head(em.free_indices)),
     slots |-> Len(em.generation)]

CreateNewEntity ==
    /\ ~panicked
    /\ ops < MaxOps
    /\ LET c == create_new_entity(entity_manager)
       IN  /\ entity_manager' = c.em
           /\ issued' = issued \cup {c.entity}
           /\ last' = Call("create_new_entity", NoEntity,
                           Observed(entity_manager), c.entity)
    /\ ops' = ops + 1
    /\ UNCHANGED <<systems, focus, panicked, destroyed>>

\* a build with overflow checks panics at the increment, before any change
DestroyEntity ==
    /\ ~panicked
    /\ ops < MaxOps
    /\ \E entity \in issued :
          /\ panicked' \in IF destroy_overflows(entity_manager, entity)
                           THEN BOOLEAN
                           ELSE {FALSE}
          /\ entity_manager' = IF panicked'
                               THEN entity_manager
                               ELSE destroy_entity(entity_manager, entity)
          /\ destroyed' = destroyed \cup {entity}
          /\ last' = Call("destroy_entity", entity, NoArg, NoEntity)
    /\ ops' = ops + 1
    /\ UNCHANGED <<systems, focus, issued>>

SetEntityIsActive ==
    /\ ~panicked
    /\ ops < MaxOps
    /\ \E entity \in issued, a \in BOOLEAN :
          /\ entity_manager' = set_entity_is_active(entity_manager, entity, a)
          /\ last' = Call("set_entity_is_active", entity, a, NoEntity)
    /\ ops' = ops + 1
    /\ UNCHANGED <<systems, focus, panicked, issued, destroyed>>

ToggleEntityIsActive ==
    /\ ~panicked
    /\ ops < MaxOps
    /\ \E entity \in issued :
          /\ entity_manager' = toggle_entity_is_active(entity_manager, entity)
          /\ last' = Call("toggle_entity_is_active", entity, NoArg, NoEntity)
    /\ ops' = ops + 1
    /\ UNCHANGED <<systems, focus, panicked, issued, destroyed>>

NextEM ==
    \/ CreateNewEntity
    \/ DestroyEntity
    \/ SetEntityIsActive
    \/ ToggleEntityIsActive

SpecEM == InitEM /\ [][NextEM]_vars

(***************************************************************************)
(* Claims about the entity manager, checked under SpecEM.                  *)
(***************************************************************************)
Created == ~panicked /\ last.op = "create_new_entity"

\* C1: right after create_new_entity returns, the handle it returned is alive
\* and active, whether its index is fresh or recycled and whatever the active
\* flag of the index was before the call.
C1_CreatedIsAliveAndActive ==
    Created =>
        /\ entity_is_alive(entity_manager, last.ret)
        /\ entity_is_active(entity_manager, last.ret)

\* a recycled index whose previous occupant was inactive has been handed out
C1_Witness ==
    /\ Created
    /\ last.arg.pending > MINIMUM_FREE_INDICES
    /\ last.ret.index = last.arg.oldest
    /\ ~last.arg.was_active
    /\ entity_is_alive(entity_manager, last.ret)
    /\ entity_is_active(entity_manager, last.ret)

\* C2: a handle destroy_entity has been called on is not alive in any later
\* state, and create_new_entity never returns it again.  (No index is
\* recycled more than MaxOps times in a run of SpecEM.)
C2_DestroyedStaysDead ==
    ~panicked =>
        \A h \in destroyed :
            /\ ~entity_is_alive(entity_manager, h)
            /\ last.op = "create_new_entity" => last.ret # h

\* C5: create_new_entity recycles exactly when more than
\* MINIMUM_FREE_INDICES indices are pending: it then pops the index pending
\* longest and returns it with its current generation; otherwise it appends a
\* slot and returns the new index with generation 0.
C5_RecyclesAboveThreshold ==
    Created =>
        IF last.arg.pending > MINIMUM_FREE_INDICES
        THEN /\ last.ret.index = last.arg.oldest
             /\ last.ret.generation = At(entity_manager.generation, last.ret.index)
             /\ Len(entity_manager.free_indices) = last.arg.pending - 1
             /\ Len(entity_manager.generation) = last.arg.slots
        ELSE /\ last.ret.index = last.arg.slots
             /\ last.ret.generation = 0
             /\ Len(entity_manager.generation) = last.arg.slots + 1
             /\ Len(entity_manager.free_indices) = last.arg.pending

\* C16: Entity::null() (index 0, generation 0) is never handed out again:
\* whatever create_new_entity and destroy_entity calls were made, on whatever
\* handles, no create_new_entity returns a handle with index 0.
C16_NullIndexIsNeverHandedOut == Created => last.ret.index # Entity_null.index

\* the same for runs in which destroy_entity was never called on a handle of
\* index 0
NullIndexIsKeptUnlessDestroyed ==
    (Created /\ \A h \in destroyed : h.index # Entity_null.index) =>
        last.ret.index # Entity_null.index

\* C17: set_entity_is_active and toggle_entity_is_active change at most the
\* active flag at the index of the handle given, and only when that handle
\* is alive; they change no generation and not the free list.
\* destroy_entity changes no active flag.
C17_ActiveFlagIsIndependent ==
    [][/\ last'.op \in {"set_entity_is_active", "toggle_entity_is_active"} =>
            /\ entity_manager'.generation = entity_manager.generation
            /\ entity_manager'.free_indices = entity_manager.free_indices
            /\ Len(entity_manager'.active) = Len(entity_manager.active)
            /\ \A k \in 0..(Len(entity_manager.active) - 1) :
                   k # last'.entity.index =>
                       At(entity_manager'.active, k) = At(entity_manager.active, k)
            /\ ~entity_is_alive(entity_manager, last'.entity) =>
                   entity_manager'.active = entity_manager.active
       /\ last'.op = "destroy_entity" =>
            entity_manager'.active = entity_manager.active]_vars

\* an active entity has been destroyed and set_entity_is_active(false) was
\* then called on its stale handle: the flag of the index is still set
C17_Witness ==
    /\ last.op = "set_entity_is_active"
    /\ last.arg = FALSE
    /\ last.entity \in destroyed
    /\ last.entity.index # Entity_null.index
    /\ ~entity_is_alive(entity_manager, last.entity)
    /\ entity_is_active(entity_manager, last.entity)

\* no index is twice in the queue q
NoIndexTwice(q) == Cardinality({q[k] : k \in DOMAIN q}) = Len(q)

\* C27: for any sequence of create_new_entity and destroy_entity calls,
\* including destroy_entity on a handle that was already destroyed,
\* create_new_entity never returns a handle equal to one it returned earlier
\* on which destroy_entity has not been called since (here: has never been
\* called), and the free-index queue never holds the same index twice.
C27_NoHandleIsIssuedTwice ==
    [][/\ (last'.op = "create_new_entity" /\ ~panicked') =>
             last'.ret \notin (issued \ destroyed)
       /\ (last'.op = "destroy_entity" /\ ~panicked'
               /\ NoIndexTwice(entity_manager.free_indices)) =>
             NoIndexTwice(entity_manager'.free_indices)]_vars

\* the part of C27 about the handles returned
LiveHandleIsNotReturned ==
    [][(last'.op = "create_new_entity" /\ ~panicked') =>
           last'.ret \notin (issued \ destroyed)]_vars

\* the part of C27 about the queue, for the calls of destroy_entity on a
\* handle that is alive and is not Entity::null()
DestroyOfAliveQueuesOnce ==
    [][(/\ last'.op = "destroy_entity"
        /\ ~panicked'
        /\ last'.entity # Entity_null
        /\ entity_is_alive(entity_manager, last'.entity)
        /\ NoIndexTwice(entity_manager.free_indices)) =>
           NoIndexTwice(entity_manager'.free_indices)]_vars

\* both sides of the threshold have been seen: a create with exactly
\* MINIMUM_FREE_INDICES pending took a fresh slot, and the next destroy and
\* create recycled the oldest index, which differs from the newest
C5_Witness ==
    /\ Created
    /\ last.arg.pending = MINIMUM_FREE_INDICES + 1
    /\ last.ret.index = last.arg.oldest
    /\ last.arg.oldest # Last(entity_manager.free_indices)
    /\ Len(entity_manager.generation) > 4

(***************************************************************************)
(* The component stores.  A run makes calls on the stores named in focus.  *)
(* It starts after EntityManager::new() and four create_new_entity calls   *)
(* (handles E(1)..E(4)); in a run that does not make calls on the          *)
(* TransformationSystem, E(1), E(2) and E(3) have been given a             *)
(* Transformation and E(4) and Entity::null() have none.                   *)
(***************************************************************************)
E(i) == Entity_new(i, 0)

TransformationBuilders ==
    {TransformationBuilder_new,
     at_position(TransformationBuilder_new, V3(1, 0, 0))}

RigidBodyBuilders ==
    {RigidBodyBuilder_new,
     dealing_damage(with_mass(RigidBodyBuilder_new, One), Num(2))}

HealthBuilders ==
    {HealthBuilder_new,
     with_hitpoints(HealthBuilder_new, <<Num(3), Num(5)>>),
     with_hitpoints(HealthBuilder_new, <<Num(1), Num(0)>>),
     with_hitpoints(HealthBuilder_new, <<Num(1), Num(-1)>>)}

DrawableBuilders ==
    {DrawableBuilder_new, using_shader(DrawableBuilder_new, "test")}

TextBuilders == {TextBuilder_new, with_text(TextBuilder_new, "Hi")}

ParticleEmitterBuilders == {ParticleEmitterBuilder_new}

FourCreated ==
    create_new_entity(
        create_new_entity(
            create_new_entity(
                create_new_entity(EntityManager_new).em).em).em).em

ThreeTransformed ==
    add_transformation_to_entity(
        add_transformation_to_entity(
            add_transformation_to_entity(
                TransformationSystem_new, E(1), TransformationBuilder_new),
            E(2), at_position(TransformationBuilder_new, V3(1, 0, 0))),
        E(3), at_position(TransformationBuilder_new, V3(0, 2, 0)))

StoreKinds ==
    {"transformation", "rigid_body", "health", "drawable", "text",
     "particle_emitter"}

InitStore ==
    /\ focus \in {{k} : k \in StoreKinds}
    /\ entity_manager = FourCreated
    /\ issued = {Entity_null, E(1), E(2), E(3), E(4)}
    /\ destroyed = {}
    /\ transformation_system = IF "transformation" \in focus
                               THEN TransformationSystem_new
                               ELSE ThreeTransformed
    /\ rigid_body_system = RigidBodySystem_new
    /\ health_system = HealthSystem_new
    /\ drawable_system = DrawableSystem_new
    /\ text_system = TextSystem_new
    /\ particle_emitter_system = ParticleEmitterSystem_new
    /\ panicked = FALSE
    /\ last = Call("new", NoEntity, NoArg, NoEntity)
    /\ ops = 0

\* what a caller can observe of a store before a call on entity: whether the
\* entity has the component and a Transformation, the index of its record
\* (-1 when it has none) and the number of records
Seen(map, data, entity, builder) ==
    [had |-> entity \in DOMAIN map,
     had_transformation |-> entity_has_transformation(transformation_system,
                                                      entity),
     index |-> IF entity \in DOMAIN map THEN map[entity] ELSE -1,
     len |-> Len(data),
     builder |-> builder]

Driver(kind) ==
    /\ ~panicked
    /\ ops < MaxOps
    /\ kind \in focus
    /\ ops' = ops + 1
    /\ UNCHANGED <<focus, panicked>>

AddTransformation ==
    /\ Driver("transformation")
    /\ \E entity \in issued, b \in TransformationBuilders :
          /\ transformation_system' =
                 add_transformation_to_entity(transformation_system, entity, b)
          /\ last' = Call("add_transformation_to_entity", entity,
                          Seen(transformation_system.map,
                               transformation_system.data, entity, b),
                          NoEntity)
    /\ UNCHANGED <<entity_manager, rigid_body_system, health_system,
                   drawable_system, text_system, particle_emitter_system,
                   issued, destroyed>>

RemoveTransformation ==
    /\ Driver("transformation")
    /\ \E entity \in issued :
          /\ transformation_system' =
                 remove_transformation_from_entity(transformation_system, entity)
          /\ last' = Call("remove_transformation_from_entity", entity,
                          Seen(transformation_system.map,
                               transformation_system.data, entity, NoArg),
                          NoEntity)
    /\ UNCHANGED <<entity_manager, rigid_body_system, health_system,
                   drawable_system, text_system, particle_emitter_system,
                   issued, destroyed>>

AddRigidBody ==
    /\ Driver("rigid_body")
    /\ \E entity \in issued, b \in RigidBodyBuilders :
          /\ rigid_body_system' =
                 add_rigid_body_to_entity(rigid_body_system, entity, b,
                                          transformation_system)
          /\ last' = Call("add_rigid_body_to_entity", entity,
                          Seen(rigid_body_system.map,
                               rigid_body_system.rigid_bodies, entity, b),
                          NoEntity)
    /\ UNCHANGED <<entity_manager, transformation_system, health_system,
                   drawable_system, text_system, particle_emitter_system,
                   issued, destroyed>>

RemoveRigidBody ==
    /\ Driver("rigid_body")
    /\ \E entity \in issued :
          /\ rigid_body_system' =
                 remove_rigid_body_from_entity(rigid_body_system, entity)
          /\ last' = Call("remove_rigid_body_from_entity", entity,
                          Seen(rigid_body_system.map,
                               rigid_body_system.rigid_bodies, entity, NoArg),
                          NoEntity)
    /\ UNCHANGED <<entity_manager, transformation_system, health_system,
                   drawable_system, text_system, particle_emitter_system,
                   issued, destroyed>>

AddHealth ==
    /\ Driver("health")
    /\ \E entity \in issued, b \in HealthBuilders :
          /\ health_system' = add_health_to_entity(health_system, entity, b)
          /\ last' = Call("add_health_to_entity", entity,
                          Seen(health_system.map, health_system.data, entity, b),
                          NoEntity)
    /\ UNCHANGED <<entity_manager, transformation_system, rigid_body_system,
                   drawable_system, text_system, particle_emitter_system,
                   issued, destroyed>>

RemoveHealth ==
    /\ Driver("health")
    /\ \E entity \in issued :
          /\ health_system' = remove_health_from_entity(health_system, entity)
          /\ last' = Call("remove_health_from_entity", entity,
                          Seen(health_system.map, health_system.data, entity,
                               NoArg),
                          NoEntity)
    /\ UNCHANGED <<entity_manager, transformation_system, rigid_body_system,
                   drawable_system, text_system, particle_emitter_system,
                   issued, destroyed>>

AddDrawable ==
    /\ Driver("drawable")
    /\ \E entity \in issued, b \in DrawableBuilders :
          /\ drawable_system' =
                 add_drawable_to_entity(drawable_system, entity,
                                        transformation_system, b)
          /\ last' = Call("add_drawable_to_entity", entity,
                          Seen(drawable_system.map, drawable_system.data,
                               entity, b),
                          NoEntity)
    /\ UNCHANGED <<entity_manager, transformation_system, rigid_body_system,
                   health_system, text_system, particle_emitter_system,
                   issued, destroyed>>

RemoveDrawable ==
    /\ Driver("drawable")
    /\ \E entity \in issued :
          /\ drawable_system' =
                 remove_drawable_from_entity(drawable_system, entity)
          /\ last' = Call("remove_drawable_from_entity", entity,
                          Seen(drawable_system.map, drawable_system.data,
                               entity, NoArg),
                          NoEntity)
    /\ UNCHANGED <<entity_manager, transformation_system, rigid_body_system,
                   health_system, text_system, particle_emitter_system,
                   issued, destroyed>>

AddText ==
    /\ Driver("text")
    /\ \E entity \in issued, b \in TextBuilders :
          /\ text_system' =
                 add_text_to_entity(text_system, entity, transformation_system, b)
          /\ last' = Call("add_text_to_entity", entity,
                          Seen(text_system.map, text_system.data, entity, b),
                          NoEntity)
    /\ UNCHANGED <<entity_manager, transformation_system, rigid_body_system,
                   health_system, drawable_system, particle_emitter_system,
                   issued, destroyed>>

RemoveText ==
    /\ Driver("text")
    /\ \E entity \in issued :
          /\ text_system' = remove_text_from_entity(text_system, entity)
          /\ last' = Call("remove_text_from_entity", entity,
                          Seen(text_system.map, text_system.data, entity, NoArg),
                          NoEntity)
    /\ UNCHANGED <<entity_manager, transformation_system, rigid_body_system,
                   health_system, drawable_system, particle_emitter_system,
                   issued, destroyed>>

AddParticleEmitter ==
    /\ Driver("particle_emitter")
    /\ \E entity \in issued, b \in ParticleEmitterBuilders :
          \E r \in {add_particle_emitter_to_entity(
                        particle_emitter_system, entity, b, entity_manager,
                        transformation_system, rigid_body_system,
                        drawable_system)} :
              /\ particle_emitter_system' = r.ps
              /\ entity_manager' = r.em
              /\ transformation_system' = r.ts
              /\ rigid_body_system' = r.rbs
              /\ drawable_system' = r.ds
              /\ last' = Call("add_particle_emitter_to_entity", entity,
                              Seen(particle_emitter_system.map,
                                   particle_emitter_system.data, entity, b),
                              NoEntity)
    /\ UNCHANGED <<health_system, text_system, issued, destroyed>>

RemoveParticleEmitter ==
    /\ Driver("particle_emitter")
    /\ \E entity \in issued :
          \E r \in {remove_particle_emitter_from_entity(
                        particle_emitter_system, entity, entity_manager)} :
              /\ particle_emitter_system' = r.ps
              /\ entity_manager' = r.em
              /\ last' = Call("remove_particle_emitter_from_entity", entity,
                              Seen(particle_emitter_system.map,
                                   particle_emitter_system.data, entity, NoArg),
                              NoEntity)
    /\ UNCHANGED <<transformation_system, rigid_body_system, health_system,
                   drawable_system, text_system, issued, destroyed>>

NextStore ==
    \/ AddTransformation
    \/ RemoveTransformation
    \/ AddRigidBody
    \/ RemoveRigidBody
    \/ AddHealth
    \/ RemoveHealth
    \/ AddDrawable
    \/ RemoveDrawable
    \/ AddText
    \/ RemoveText
    \/ AddParticleEmitter
    \/ RemoveParticleEmitter

SpecStore == InitStore /\ [][NextStore]_vars

(***************************************************************************)
(* Health and damage.  A run starts from FourCreated and ThreeTransformed  *)
(* with two rigid bodies: E(1), of mass 1, moving along +x at the origin   *)
(* and dealing 2 of damage, and E(2), static, of extents (1,1,1) at        *)
(* (1,0,0), dealing 1 of damage, which dies on collision or not.  E(1) has *)
(* a Health built by one of HealthBuilders and E(2) one of hitpoints       *)
(* (3, 5).  The run then calls heal, harm, kill_entity,                    *)
(* HealthSystem::update and RigidBodySystem::update.                       *)
(***************************************************************************)
TwoBodies(dies) ==
    add_rigid_body_to_entity(
        add_rigid_body_to_entity(
            RigidBodySystem_new, E(1),
            dealing_damage(
                with_velocity(with_mass(RigidBodyBuilder_new, One), V3(1, 0, 0)),
                Num(2)),
            ThreeTransformed),
        E(2),
        IF dies
        THEN dies_on_collision(
                 dealing_damage(with_extents(RigidBodyBuilder_new, V3(1, 1, 1)),
                                One))
        ELSE dealing_damage(with_extents(RigidBodyBuilder_new, V3(1, 1, 1)), One),
        ThreeTransformed)

TwoHealths(b) ==
    add_health_to_entity(
        add_health_to_entity(HealthSystem_new, E(1), b),
        E(2), with_hitpoints(HealthBuilder_new, <<Num(3), Num(5)>>))

InitHealth ==
    /\ focus = {"life"}
    /\ entity_manager = FourCreated
    /\ issued = {Entity_null, E(1), E(2), E(3), E(4)}
    /\ destroyed = {}
    /\ transformation_system = ThreeTransformed
    /\ \E dies \in BOOLEAN : rigid_body_system = TwoBodies(dies)
    /\ \E b \in HealthBuilders : health_system = TwoHealths(b)
    /\ drawable_system = DrawableSystem_new
    /\ text_system = TextSystem_new
    /\ particle_emitter_system = ParticleEmitterSystem_new
    /\ panicked = FALSE
    /\ last = Call("new", NoEntity, NoArg, NoEntity)
    /\ ops = 0

\* the handles a run passes to heal, harm and kill_entity: the null handle,
\* the two owners of a Health and an entity without one
Patients == {Entity_null, E(1), E(2), E(3)}

Amounts == {One, Num(3)}

\* dt of a frame: half a fixed step, one and two
TimeSteps == {Rat(1, 120), Rat(1, 60), Rat(1, 30)}

\* the hitpoints of every owner of a Health
Hitpoints(hs) == [e \in DOMAIN hs.map |-> At(hs.data, hs.map[e]).hitpoints]

Heal ==
    /\ Driver("life")
    /\ \E entity \in Patients :
          /\ health_system' = heal(health_system, entity, Num(3))
          /\ last' = Call("heal", entity, Num(3), NoEntity)
    /\ UNCHANGED <<entity_manager, transformation_system, rigid_body_system,
                   drawable_system, text_system, particle_emitter_system,
                   issued, destroyed>>

Harm ==
    /\ Driver("life")
    /\ \E entity \in Patients, amount \in Amounts :
          /\ health_system' = harm(health_system, entity, amount)
          /\ last' = Call("harm", entity, amount, NoEntity)
    /\ UNCHANGED <<entity_manager, transformation_system, rigid_body_system,
                   drawable_system, text_system, particle_emitter_system,
                   issued, destroyed>>

KillEntity ==
    /\ Driver("life")
    /\ \E entity \in Patients :
          /\ health_system' = kill_entity(health_system, entity)
          /\ last' = Call("kill_entity", entity, NoArg, NoEntity)
    /\ UNCHANGED <<entity_manager, transformation_system, rigid_body_system,
                   drawable_system, text_system, particle_emitter_system,
                   issued, destroyed>>

\* last.arg lists the owners the call passed to destroy_entity, in order
HealthUpdate ==
    /\ ~panicked
    /\ ops < MaxOps
    /\ "life" \in focus
    /\ ops' = ops + 1
    /\ \E r \in {HealthSystem_update(health_system, entity_manager)} :
           /\ panicked' \in IF r.overflow THEN BOOLEAN ELSE {FALSE}
           /\ health_system' = IF panicked' THEN health_system ELSE r.hs
           /\ entity_manager' = IF panicked' THEN entity_manager ELSE r.em
           /\ destroyed' = destroyed \cup {r.destroyed[k] :
                                             k \in DOMAIN r.destroyed}
           /\ last' = Call("HealthSystem::update", NoEntity, r.destroyed,
                           NoEntity)
    /\ UNCHANGED <<transformation_system, rigid_body_system, drawable_system,
                   text_system, particle_emitter_system, issued, focus>>

\* last.arg is the dt given, the accumulator and the number of bodies
\* before the call, the number of sub-steps the call ran, the collisions it
\* went through and the integrations it made
RigidBodyUpdate ==
    /\ ~panicked
    /\ ops < MaxOps
    /\ focus \cap {"life", "physics"} # {}
    /\ ops' = ops + 1
    /\ \E dt \in TimeSteps :
          \E r \in {RigidBodySystem_update(rigid_body_system, dt,
                                            transformation_system,
                                            health_system)} :
              /\ rigid_body_system' = r.rbs
              /\ transformation_system' = r.ts
              /\ health_system' = r.hs
              /\ panicked' = r.panicked
              /\ last' = Call("RigidBodySystem::update", NoEntity,
                              [dt |-> dt, timer |-> rigid_body_system.timer[1],
                               count |-> Len(rigid_body_system.rigid_bodies),
                               steps |-> r.steps, log |-> r.log,
                               moved |-> r.moved],
                              NoEntity)
    /\ UNCHANGED <<entity_manager, drawable_system, text_system,
                   particle_emitter_system, issued, destroyed, focus>>

NextHealth ==
    \/ Heal
    \/ Harm
    \/ KillEntity
    \/ HealthUpdate
    \/ RigidBodyUpdate

SpecHealth == InitHealth /\ [][NextHealth]_vars

(***************************************************************************)
(* Entities that come and go with a Health.  A run makes                   *)
(* create_new_entity, destroy_entity, add_health_to_entity,                *)
(* remove_health_from_entity and HealthSystem::update calls.  It starts    *)
(* after EntityManager::new(), or after one entity was destroyed over and  *)
(* over (Overdestroyed), or long after a death: one entity was given a     *)
(* Health, kill_entity was called on it, and HealthSystem::update has been *)
(* called in each of 5 * 2^8 frames since, in a build without overflow     *)
(* checks.                                                                 *)
(***************************************************************************)
LongDead ==
    LET c1 == create_new_entity(EntityManager_new)
    IN  [em |-> destroy_entity_times(c1.em, c1.entity,
                                     5 * (2 ^ ENTITY_GENERATION_BITS)),
         issued |-> {Entity_null, c1.entity},
         destroyed |-> {c1.entity},
         hs |-> kill_entity(
                    add_health_to_entity(
                        HealthSystem_new, c1.entity,
                        with_hitpoints(HealthBuilder_new, <<Num(3), Num(5)>>)),
                    c1.entity)]

InitReuse ==
    /\ \E s \in {Fresh @@ [hs |-> HealthSystem_new],
                  Overdestroyed @@ [hs |-> HealthSystem_new],
                  LongDead} :
          /\ entity_manager = s.em
          /\ issued = s.issued
          /\ destroyed = s.destroyed
          /\ health_system = s.hs
    /\ transformation_system = TransformationSystem_new
    /\ rigid_body_system = RigidBodySystem_new
    /\ drawable_system = DrawableSystem_new
    /\ text_system = TextSystem_new
    /\ particle_emitter_system = ParticleEmitterSystem_new
    /\ focus = {"health", "life"}
    /\ panicked = FALSE
    /\ last = Call("new", NoEntity, NoArg, NoEntity)
    /\ ops = 0

NextReuse ==
    \/ CreateNewEntity
    \/ DestroyEntity
    \/ AddHealth
    \/ RemoveHealth
    \/ HealthUpdate

SpecReuse == InitReuse /\ [][NextReuse]_vars

(***************************************************************************)
(* Physics.  A run starts from a scene and calls RigidBodySystem::update.  *)
(* A scene has no body at all, or two bodies of extents (1,1,1): E(1) at   *)
(* the origin and E(2) at (1,0,0), which overlap by 1 along x.  E(1) has   *)
(* velocity (speed, 0, 0) and deals 2 of damage, E(2) has velocity         *)
(* (-speed, 0, 0) and deals 1; a mass of 0 stands for a body built without *)
(* with_mass (a static body) and a mass of -1 for with_mass(-1.0).  The    *)
(* owners in `healthy` have a Health of hitpoints (3, 5), and E(1) dies on *)
(* collision or not.                                                       *)
(***************************************************************************)
Masses == {<<1, 1>>, <<7, 7>>, <<1, 7>>, <<1, 0>>, <<-1, 0>>}

Elasticities == {<<Zero, Zero>>, <<Half, Rat(1, 4)>>}

Speeds == {3, 0, -1}

Healthy == {{}, {E(1)}, {E(1), E(2)}}

SceneBody(mass, elasticity, speed, damage, dies) ==
    LET b0 == dealing_damage(
                  with_elasticity(
                      with_velocity(
                          with_extents(RigidBodyBuilder_new, V3(1, 1, 1)),
                          V3(speed, 0, 0)),
                      elasticity),
                  Num(damage))
        b1 == IF mass = 0 THEN b0 ELSE with_mass(b0, Num(mass))
    IN  IF dies THEN dies_on_collision(b1) ELSE b1

SceneHealth(healthy) ==
    LET h1 == IF E(1) \in healthy
              THEN add_health_to_entity(
                       HealthSystem_new, E(1),
                       with_hitpoints(HealthBuilder_new, <<Num(3), Num(5)>>))
              ELSE HealthSystem_new
    IN  IF E(2) \in healthy
        THEN add_health_to_entity(
                 h1, E(2), with_hitpoints(HealthBuilder_new, <<Num(3), Num(5)>>))
        ELSE h1

EmptyScene ==
    [rbs |-> RigidBodySystem_new, ts |-> ThreeTransformed,
     hs |-> HealthSystem_new]

PairScene(masses, elasticities, speed, healthy, dies) ==
    [rbs |-> add_rigid_body_to_entity(
                 add_rigid_body_to_entity(
                     RigidBodySystem_new, E(1),
                     SceneBody(masses[1], elasticities[1], speed, 2, dies),
                     ThreeTransformed),
                 E(2),
                 SceneBody(masses[2], elasticities[2], -speed, 1, FALSE),
                 ThreeTransformed),
     ts |-> ThreeTransformed,
     hs |-> SceneHealth(healthy)]

Scenes ==
    {EmptyScene} \cup
    {PairScene(m, e, s, h, d) :
        m \in Masses, e \in Elasticities, s \in Speeds, h \in Healthy,
        d \in BOOLEAN}

InitPhysics ==
    /\ focus = {"physics"}
    /\ entity_manager = FourCreated
    /\ issued = {Entity_null, E(1), E(2), E(3), E(4)}
    /\ destroyed = {}
    /\ \E scene \in Scenes :
          /\ rigid_body_system = scene.rbs
          /\ transformation_system = scene.ts
          /\ health_system = scene.hs
    /\ drawable_system = DrawableSystem_new
    /\ text_system = TextSystem_new
    /\ particle_emitter_system = ParticleEmitterSystem_new
    /\ panicked = FALSE
    /\ last = Call("new", NoEntity, NoArg, NoEntity)
    /\ ops = 0

NextPhysics == RigidBodyUpdate

SpecPhysics == InitPhysics /\ [][NextPhysics]_vars

(***************************************************************************)
(* Bodies on top of, under and next to each other.  A run starts from a    *)
(* scene of bodies of extents (1,1,1) and calls RigidBodySystem::update,   *)
(* and set_locomotion in the runs whose focus holds "walk".  A pair scene  *)
(* has E(1) at the origin, at rest, and E(2) at one of StackPositions,     *)
(* which overlaps E(1) by 1/2 and moves away from it at `speed` times its  *)
(* position; a mass of 0 stands for a body built without with_mass, and    *)
(* both bodies are gravity-immune or neither.  The row scene has three     *)
(* bodies of mass 1 in a row along x, E(1) in the middle at rest and E(2)  *)
(* and E(3) closing in on it from either side.                             *)
(***************************************************************************)
StackPositions ==
    {<<Zero, Rat(3, 2), Zero>>, <<Zero, Rat(-3, 2), Zero>>,
     <<Rat(3, 2), Zero, Zero>>}

StackMasses == {<<0, 1>>, <<1, 0>>, <<1, 1>>}

StackSpeeds == {0, 3}

StackBody(mass, velocity, immune) ==
    LET b0 == with_velocity(with_extents(RigidBodyBuilder_new, V3(1, 1, 1)),
                            velocity)
        b1 == IF mass = 0 THEN b0 ELSE with_mass(b0, Num(mass))
    IN  IF immune THEN is_gravity_immune(b1) ELSE b1

TwoTransformed(position) ==
    add_transformation_to_entity(
        add_transformation_to_entity(
            TransformationSystem_new, E(1), TransformationBuilder_new),
        E(2), at_position(TransformationBuilder_new, position))

StackScene(position, masses, speed, immune) ==
    [rbs |-> add_rigid_body_to_entity(
                 add_rigid_body_to_entity(
                     RigidBodySystem_new, E(1),
                     StackBody(masses[1], V3(0, 0, 0), immune),
                     TwoTransformed(position)),
                 E(2),
                 StackBody(masses[2], VScale(position, Num(speed)), immune),
                 TwoTransformed(position)),
     ts |-> TwoTransformed(position),
     focus |-> IF position = <<Zero, Rat(3, 2), Zero>> /\ speed = 0
               THEN {"physics", "walk"}
               ELSE {"physics"}]

RowTransformed ==
    add_transformation_to_entity(
        TwoTransformed(V3(1, 0, 0)), E(3),
        at_position(TransformationBuilder_new, V3(-1, 0, 0)))

RowScene ==
    [rbs |-> add_rigid_body_to_entity(
                 add_rigid_body_to_entity(
                     add_rigid_body_to_entity(
                         RigidBodySystem_new, E(1),
                         StackBody(1, V3(0, 0, 0), FALSE), RowTransformed),
                     E(2), StackBody(1, V3(-3, 0, 0), FALSE), RowTransformed),
                 E(3), StackBody(1, V3(3, 0, 0), FALSE), RowTransformed),
     ts |-> RowTransformed,
     focus |-> {"physics"}]

StackScenes ==
    {RowScene} \cup
    {StackScene(p, m, s, g) :
        p \in StackPositions, m \in StackMasses, s \in StackSpeeds,
        g \in BOOLEAN}

InitStack ==
    /\ entity_manager = FourCreated
    /\ issued = {Entity_null, E(1), E(2), E(3), E(4)}
    /\ destroyed = {}
    /\ \E scene \in StackScenes :
          /\ rigid_body_system = scene.rbs
          /\ transformation_system = scene.ts
          /\ focus = scene.focus
    /\ health_system = HealthSystem_new
    /\ drawable_system = DrawableSystem_new
    /\ text_system = TextSystem_new
    /\ particle_emitter_system = ParticleEmitterSystem_new
    /\ panicked = FALSE
    /\ last = Call("new", NoEntity, NoArg, NoEntity)
    /\ ops = 0

\* the locomotion a walking entity is given
Strides == {V3(1, 0, 0)}

SetLocomotion ==
    /\ Driver("walk")
    /\ \E entity \in {E(1), E(2)}, locomotion \in Strides :
          /\ rigid_body_system' =
                 set_locomotion(rigid_body_system, entity, locomotion)
          /\ last' = Call("set_locomotion", entity, locomotion, NoEntity)
    /\ UNCHANGED <<entity_manager, transformation_system, health_system,
                   drawable_system, text_system, particle_emitter_system,
                   issued, destroyed>>

NextStack ==
    \/ RigidBodyUpdate
    \/ SetLocomotion

SpecStack == InitStack /\ [][NextStack]_vars

(***************************************************************************)
(* RigidBody::colliding on its own.  A run starts with two bodies, E(1) at *)
(* the origin and E(2) at one of BoxPositions, each with one of BoxExtents,*)
(* and calls colliding on the pair in either order, with the positions     *)
(* RigidBodySystem::update would pass.                                     *)
(***************************************************************************)
BoxExtents == {V3(1, 1, 1), <<Half, Half, Half>>, <<Num(10), Half, Num(10)>>}

BoxPositions ==
    {<<x, y, z>> : x \in {Zero, Rat(3, 2), Rat(-3, 2), Rat(1, 10)},
                   y \in {Zero, One, Rat(-1, 2)},
                   z \in {Zero, Num(3)}}

InitCollide ==
    /\ focus = {"colliding"}
    /\ entity_manager = FourCreated
    /\ issued = {Entity_null, E(1), E(2), E(3), E(4)}
    /\ destroyed = {}
    /\ \E position \in BoxPositions, e1 \in BoxExtents, e2 \in BoxExtents :
          \E ts \in {add_transformation_to_entity(
                         add_transformation_to_entity(
                             TransformationSystem_new, E(1),
                             TransformationBuilder_new),
                         E(2), at_position(TransformationBuilder_new, position))} :
              /\ transformation_system = ts
              /\ rigid_body_system =
                     add_rigid_body_to_entity(
                         add_rigid_body_to_entity(
                             RigidBodySystem_new, E(1),
                             with_extents(RigidBodyBuilder_new, e1), ts),
                         E(2), with_extents(RigidBodyBuilder_new, e2), ts)
    /\ health_system = HealthSystem_new
    /\ drawable_system = DrawableSystem_new
    /\ text_system = TextSystem_new
    /\ particle_emitter_system = ParticleEmitterSystem_new
    /\ panicked = FALSE
    /\ last = Call("new", NoEntity, NoArg, NoEntity)
    /\ ops = 0

\* rigid_bodies[i].colliding(&rigid_bodies[j], (position_1, position_2));
\* last.arg is the three arguments and last.ret the Option returned
Colliding ==
    /\ Driver("colliding")
    /\ \E i \in {0, 1}, j \in {0, 1} :
          /\ i # j
          /\ LET self == At(rigid_body_system.rigid_bodies, i)
                 other == At(rigid_body_system.rigid_bodies, j)
                 positions ==
                     <<VAdd(unwrap(get_position(transformation_system,
                                                self.owner)),
                            self.offset),
                       VAdd(unwrap(get_position(transformation_system,
                                                other.owner)),
                            other.offset)>>
             IN  last' = Call("colliding", self.owner,
                              [self |-> self, other |-> other,
                               positions |-> positions],
                              colliding(self, other, positions))
    /\ UNCHANGED <<entity_manager, systems, issued, destroyed>>

NextCollide == Colliding

SpecCollide == InitCollide /\ [][NextCollide]_vars

(***************************************************************************)
(* A body dropped on a floor.  E(1) is a static floor of extents           *)
(* (10,0.5,10) at y = 0 and E(2) a body of mass 1, elasticity 0 and the    *)
(* default extents released at one of DropHeights; either is added first.  *)
(* Every step is a call of RigidBodySystem::update with dt equal to the    *)
(* fixed step, which runs one sub-step and leaves the accumulator at 0.    *)
(* The frames of a game loop keep coming: the step is weakly fair, up to    *)
(* MaxSubSteps calls in a run.                                             *)
(***************************************************************************)
DropHeights == {Num(5), Num(2)}

Floor == with_extents(RigidBodyBuilder_new, <<Num(10), Half, Num(10)>>)

Dropped == with_mass(RigidBodyBuilder_new, One)

InitDrop ==
    /\ focus = {"drop"}
    /\ entity_manager = FourCreated
    /\ issued = {Entity_null, E(1), E(2), E(3), E(4)}
    /\ destroyed = {}
    /\ \E height \in DropHeights, floor_first \in BOOLEAN :
          \E ts \in {add_transformation_to_entity(
                         add_transformation_to_entity(
                             TransformationSystem_new, E(1),
                             TransformationBuilder_new),
                         E(2), at_position(TransformationBuilder_new,
                                           <<Zero, height, Zero>>))} :
              /\ transformation_system = ts
              /\ rigid_body_system =
                     IF floor_first
                     THEN add_rigid_body_to_entity(
                              add_rigid_body_to_entity(RigidBodySystem_new,
                                                       E(1), Floor, ts),
                              E(2), Dropped, ts)
                     ELSE add_rigid_body_to_entity(
                              add_rigid_body_to_entity(RigidBodySystem_new,
                                                       E(2), Dropped, ts),
                              E(1), Floor, ts)
    /\ health_system = HealthSystem_new
    /\ drawable_system = DrawableSystem_new
    /\ text_system = TextSystem_new
    /\ particle_emitter_system = ParticleEmitterSystem_new
    /\ panicked = FALSE
    /\ last = Call("new", NoEntity, NoArg, NoEntity)
    /\ ops = 0

\* the part of SubStep that counts the call
Frame ==
    /\ ~panicked
    /\ "drop" \in focus
    /\ ops < MaxSubSteps
    /\ ops' = ops + 1

\* RigidBodySystem::update(1.0 / 60.0): one sub-step
SubStep ==
    /\ Frame
    /\ \E r \in {RigidBodySystem_update(rigid_body_system,
                                        rigid_body_system.timer[2],
                                        transformation_system, health_system)} :
          /\ rigid_body_system' = r.rbs
          /\ transformation_system' = r.ts
          /\ health_system' = r.hs
          /\ panicked' = r.panicked
          /\ last' = Call("RigidBodySystem::update", NoEntity,
                          [dt |-> rigid_body_system.timer[2],
                           timer |-> rigid_body_system.timer[1],
                           count |-> Len(rigid_body_system.rigid_bodies),
                           steps |-> r.steps, log |-> r.log,
                           moved |-> r.moved],
                          NoEntity)
    /\ UNCHANGED <<entity_manager, drawable_system, text_system,
                   particle_emitter_system, issued, destroyed, focus>>

NextDrop == SubStep

SpecDrop == InitDrop /\ [][NextDrop]_vars

\* Weak fairness of SubStep.  A step of SpecDrop that changes ops is a
\* SubStep step and SubStep is enabled exactly when Frame is, so that
\* WF_ops(Frame) is WF_vars(SubStep) on the behaviours of SpecDrop.
FairDrop == SpecDrop /\ WF_ops(Frame)

(***************************************************************************)
(* Ray casts.  A run starts with three bodies of the default extents,      *)
(* E(1), E(2) and E(3), each at one of TargetPositions, and casts rays     *)
(* from RayOrigins along RayDirections, excluding one of Excluded.  The    *)
(* directions have x # 0: with x = 0 the slab test works on infinities.    *)
(***************************************************************************)
TargetPositions == {V3(1, 1, 0), V3(1, -1, 0), V3(2, 0, 0), V3(-1, 0, 0)}

RayOrigins == {V3(0, 0, 0), V3(3, 0, 0)}

RayDirections == {V3(1, 0, 0), V3(-1, 1, 0)}

Excluded == {Entity_null, E(1), E(2), E(3)}

InitRay ==
    /\ focus = {"ray_cast"}
    /\ entity_manager = FourCreated
    /\ issued = {Entity_null, E(1), E(2), E(3), E(4)}
    /\ destroyed = {}
    /\ \E p1 \in TargetPositions, p2 \in TargetPositions, p3 \in TargetPositions :
          \E ts \in {add_transformation_to_entity(
                         add_transformation_to_entity(
                             add_transformation_to_entity(
                                 TransformationSystem_new, E(1),
                                 at_position(TransformationBuilder_new, p1)),
                             E(2), at_position(TransformationBuilder_new, p2)),
                         E(3), at_position(TransformationBuilder_new, p3))} :
              /\ transformation_system = ts
              /\ rigid_body_system =
                     add_rigid_body_to_entity(
                         add_rigid_body_to_entity(
                             add_rigid_body_to_entity(
                                 RigidBodySystem_new, E(1),
                                 RigidBodyBuilder_new, ts),
                             E(2), RigidBodyBuilder_new, ts),
                         E(3), RigidBodyBuilder_new, ts)
    /\ health_system = HealthSystem_new
    /\ drawable_system = DrawableSystem_new
    /\ text_system = TextSystem_new
    /\ particle_emitter_system = ParticleEmitterSystem_new
    /\ panicked = FALSE
    /\ last = Call("new", NoEntity, NoArg, NoEntity)
    /\ ops = 0

\* rigid_body_system.ray_cast(ray, &transformation_system, user); last.arg
\* is the ray and last.ret the Option returned
RayCast ==
    /\ ~panicked
    /\ ops < MaxOps
    /\ "ray_cast" \in focus
    /\ ops' = ops + 1
    /\ \E origin \in RayOrigins, direction \in RayDirections, user \in Excluded :
          \E r \in {ray_cast(rigid_body_system, <<origin, direction>>,
                             transformation_system, user)} :
              /\ panicked' = r.panicked
              /\ last' = Call("ray_cast", user, <<origin, direction>>, r.result)
    /\ UNCHANGED <<entity_manager, systems, issued, destroyed, focus>>

NextRay == RayCast

SpecRay == InitRay /\ [][NextRay]_vars

(***************************************************************************)
(* Transformations and rigid bodies together.  A run starts after          *)
(* EntityManager::new() and two create_new_entity calls, with empty        *)
(* stores, and makes add and remove calls on the TransformationSystem and  *)
(* the RigidBodySystem, RigidBodySystem::update calls and ray_cast calls.  *)
(***************************************************************************)
InitOrphan ==
    /\ focus = {"transformation", "rigid_body", "physics", "ray_cast"}
    /\ entity_manager =
           create_new_entity(create_new_entity(EntityManager_new).em).em
    /\ issued = {Entity_null, E(1), E(2)}
    /\ destroyed = {}
    /\ SystemsNew
    /\ panicked = FALSE
    /\ last = Call("new", NoEntity, NoArg, NoEntity)
    /\ ops = 0

NextOrphan ==
    \/ AddTransformation
    \/ RemoveTransformation
    \/ AddRigidBody
    \/ RemoveRigidBody
    \/ RigidBodyUpdate
    \/ RayCast

SpecOrphan == InitOrphan /\ [][NextOrphan]_vars

(***************************************************************************)
(* Claims about the component stores.                                      *)
(***************************************************************************)
\* map and data agree: as many entries as records, every entry e -> i has
\* i < len and data[i].owner = e, and no owner occurs twice
StoreOK(map, data) ==
    /\ Cardinality(DOMAIN map) = Len(data)
    /\ \A e \in DOMAIN map :
          /\ map[e] \in 0..(Len(data) - 1)
          /\ At(data, map[e]).owner = e
    /\ \A i, j \in 0..(Len(data) - 1) :
          At(data, i).owner = At(data, j).owner => i = j

AddOps ==
    {"add_transformation_to_entity", "add_rigid_body_to_entity",
     "add_health_to_entity", "add_drawable_to_entity", "add_text_to_entity",
     "add_particle_emitter_to_entity"}

RemoveOps ==
    {"remove_transformation_from_entity", "remove_rigid_body_from_entity",
     "remove_health_from_entity", "remove_drawable_from_entity",
     "remove_text_from_entity", "remove_particle_emitter_from_entity"}

\* C3: in each of the six stores, after any sequence of add and remove calls,
\* the map and the dense array have the same number of entries, every map
\* entry e -> i has i below the array length and data[i].owner = e, and no
\* two records have the same owner.
C3_StoresConsistent ==
    /\ StoreOK(transformation_system.map, transformation_system.data)
    /\ StoreOK(rigid_body_system.map, rigid_body_system.rigid_bodies)
    /\ StoreOK(health_system.map, health_system.data)
    /\ StoreOK(drawable_system.map, drawable_system.data)
    /\ StoreOK(text_system.map, text_system.data)
    /\ StoreOK(particle_emitter_system.map, particle_emitter_system.data)

\* a remove call has just taken a record that was not the last of its array,
\* so another record was moved into its slot
C3_Witness ==
    /\ last.op \in RemoveOps
    /\ last.arg.had
    /\ last.arg.index < last.arg.len - 1
    /\ last.arg.len >= 3

\* after a call of remove, the entity it was called on has no component, and
\* every other entity that had one has it still, with the same record
RemovedOnly(entity, map, data, map2, data2) ==
    /\ entity \notin DOMAIN map2
    /\ \A o \in DOMAIN map \ {entity} :
          /\ o \in DOMAIN map2
          /\ At(data2, map2[o]) = At(data, map[o])

\* C4: in every store and for every handle e, add then remove leaves
\* entity_has_X(e) false, and every other entity that had the component
\* before the removal still has it and resolves to the same field values,
\* whichever position the removed record had.
C4_RemoveRoundTrip ==
    [][/\ last'.op = "remove_transformation_from_entity" =>
              RemovedOnly(last'.entity,
                          transformation_system.map, transformation_system.data,
                          transformation_system'.map, transformation_system'.data)
       /\ last'.op = "remove_rigid_body_from_entity" =>
              RemovedOnly(last'.entity,
                          rigid_body_system.map, rigid_body_system.rigid_bodies,
                          rigid_body_system'.map, rigid_body_system'.rigid_bodies)
       /\ last'.op = "remove_health_from_entity" =>
              RemovedOnly(last'.entity,
                          health_system.map, health_system.data,
                          health_system'.map, health_system'.data)
       /\ last'.op = "remove_drawable_from_entity" =>
              RemovedOnly(last'.entity,
                          drawable_system.map, drawable_system.data,
                          drawable_system'.map, drawable_system'.data)
       /\ last'.op = "remove_text_from_entity" =>
              RemovedOnly(last'.entity,
                          text_system.map, text_system.data,
                          text_system'.map, text_system'.data)
       /\ last'.op = "remove_particle_emitter_from_entity" =>
              RemovedOnly(last'.entity,
                          particle_emitter_system.map,
                          particle_emitter_system.data,
                          particle_emitter_system'.map,
                          particle_emitter_system'.data)]_vars

\* C8: in every store, add_X_to_entity on an entity that already has the
\* component changes nothing: the dense array, the map and the record are as
\* before and the second builder is discarded.
C8_SecondAddIsNoOp ==
    [][(last'.op \in AddOps /\ last'.arg.had) =>
           /\ transformation_system' = transformation_system
           /\ rigid_body_system' = rigid_body_system
           /\ health_system' = health_system
           /\ drawable_system' = drawable_system
           /\ text_system' = text_system
           /\ particle_emitter_system' = particle_emitter_system
           /\ entity_manager' = entity_manager]_vars

\* a rigid body built from the default builder has just been offered a
\* second builder with other values
C8_Witness ==
    /\ last.op = "add_rigid_body_to_entity"
    /\ last.arg.had
    /\ last.arg.builder # RigidBodyBuilder_new
    /\ At(rigid_body_system.rigid_bodies, rigid_body_system.map[last.entity]) =
           RigidBodyBuilder_build(RigidBodyBuilder_new, last.entity)

\* C9: add_rigid_body_to_entity, add_drawable_to_entity and add_text_to_entity
\* on an entity without a Transformation append no record, insert no map
\* entry and leave entity_has_X false.
C9_NoTransformationNoAdd ==
    [][/\ (/\ last'.op = "add_rigid_body_to_entity"
           /\ ~last'.arg.had_transformation) =>
              /\ rigid_body_system' = rigid_body_system
              /\ ~entity_has_rigid_body(rigid_body_system', last'.entity)
       /\ (/\ last'.op = "add_drawable_to_entity"
           /\ ~last'.arg.had_transformation) =>
              /\ drawable_system' = drawable_system
              /\ ~entity_has_drawable(drawable_system', last'.entity)
       /\ (/\ last'.op = "add_text_to_entity"
           /\ ~last'.arg.had_transformation) =>
              /\ text_system' = text_system
              /\ ~entity_has_text(text_system', last'.entity)]_vars

\* a drawable has just been refused to an entity without a Transformation
\* while another entity, which has one, holds a drawable
C9_Witness ==
    /\ last.op = "add_drawable_to_entity"
    /\ ~last.arg.had_transformation
    /\ ~last.arg.had
    /\ last.arg.len >= 1
    /\ ~entity_has_drawable(drawable_system, last.entity)

\* C10: add_particle_emitter_to_entity on an entity without a Transformation
\* adds no emitter record, leaves entity_has_particle_emitter false and
\* creates no particle entity in the EntityManager.
C10_NoTransformationNoEmitter ==
    [][(/\ last'.op = "add_particle_emitter_to_entity"
        /\ ~last'.arg.had_transformation) =>
           /\ particle_emitter_system' = particle_emitter_system
           /\ ~entity_has_particle_emitter(particle_emitter_system',
                                           last'.entity)
           /\ entity_manager' = entity_manager]_vars

\* the call just made was a remove on the null handle or on an entity that
\* did not have the component
RemoveOfNullOrAbsent(l) ==
    l.op \in RemoveOps /\ (l.entity = Entity_null \/ ~l.arg.had)

\* C11: in every store, remove_X_from_entity called with Entity::null() or
\* with an entity that has no such component leaves the store unchanged:
\* same dense array, in the same order, and same map.
C11_RemoveOfNullOrAbsentIsNoOp ==
    [][RemoveOfNullOrAbsent(last') =>
           /\ transformation_system' = transformation_system
           /\ rigid_body_system' = rigid_body_system
           /\ health_system' = health_system
           /\ drawable_system' = drawable_system
           /\ text_system' = text_system
           /\ particle_emitter_system' = particle_emitter_system]_vars

\* remove has just been called with the null handle on a store in which the
\* null handle has a record, next to another record
C11_Witness ==
    /\ last.op = "remove_transformation_from_entity"
    /\ last.entity = Entity_null
    /\ last.arg.had
    /\ last.arg.len >= 2
    /\ entity_has_transformation(transformation_system, Entity_null)

(***************************************************************************)
(* Claims about RigidBodySystem::update, checked under SpecPhysics.        *)
(***************************************************************************)
\* t less step, n times over
RECURSIVE TimesLess(_, _, _)
TimesLess(t, step, n) == IF n = 0 THEN t ELSE TimesLess(RSub(t, step), step, n - 1)

\* a call of RigidBodySystem::update has just returned
Updated == last.op = "RigidBodySystem::update" /\ ~panicked

\* C12: after every call of RigidBodySystem::update(dt), whatever the number
\* of registered bodies, the accumulator is what it was plus dt, less one
\* fixed step for each sub-step run, and it is smaller than the fixed step.
C12_AccumulatorBelowStep ==
    Updated =>
        /\ rigid_body_system.timer[1] =
               TimesLess(RAdd(last.arg.timer, last.arg.dt),
                         rigid_body_system.timer[2], last.arg.steps)
        /\ RLt(rigid_body_system.timer[1], rigid_body_system.timer[2])

\* the same for calls made with at least one registered body
AccumulatorBelowStepWithBodies ==
    (Updated /\ last.arg.count > 0) =>
        /\ rigid_body_system.timer[1] =
               TimesLess(RAdd(last.arg.timer, last.arg.dt),
                         rigid_body_system.timer[2], last.arg.steps)
        /\ RLt(rigid_body_system.timer[1], rigid_body_system.timer[2])


\* the collisions the call of RigidBodySystem::update that has just returned
\* went through
Collisions == {last.arg.log[k] : k \in DOMAIN last.arg.log}

\* rv.dot(normal) of the bodies <<bi, bj>>
NormalVelocity(bodies, normal) ==
    VDot(VSub(bodies[2].velocity, bodies[1].velocity), normal)

\* a pass over two dynamic bodies that close in along the normal
ClosingDynamic(c) ==
    /\ RGt(c.before.bodies[1].inv_mass, Zero)
    /\ RGt(c.before.bodies[2].inv_mass, Zero)
    /\ RLt(c.normal_vel, Zero)

\* the larger of the two elasticities
LargerElasticity(c) ==
    IF RLt(c.before.bodies[1].elasticity, c.before.bodies[2].elasticity)
    THEN c.before.bodies[2].elasticity
    ELSE c.before.bodies[1].elasticity

\* equal masses, zero elasticity and opposite velocities along the normal
HeadOnInelastic(c) ==
    /\ c.before.bodies[1].inv_mass = c.before.bodies[2].inv_mass
    /\ c.before.bodies[1].elasticity = Zero
    /\ c.before.bodies[2].elasticity = Zero
    /\ VDot(c.before.bodies[1].velocity, c.manifold.normal) =
           RNeg(VDot(c.before.bodies[2].velocity, c.manifold.normal))

RoundingShare == Rat(1, 2 ^ 20)

Damaged(c, s, o) ==
    LET owner == c.before.bodies[s].owner
        before == Hitpoints(c.before.hs)
        after == Hitpoints(c.after.hs)
    IN  entity_has_health(c.before.hs, owner) =>
            /\ after[owner][2] = before[owner][2]
            /\ after[owner][1] =
                   IF c.before.bodies[s].die_on_collision
                   THEN F32_MIN
                   ELSE RSub(before[owner][1], c.before.bodies[o].damage)

\* C18: each time a collision of bodies i and j is resolved, each of the two
\* that has a Health loses the damage value of the other in hitpoints, and
\* ends with hitpoints f32::MIN if it dies on collision; a body without
\* Health is unaffected and the HealthSystem gains no record (nor does the
\* Health of any other entity change).
C18_CollisionDamage ==
    Updated =>
        \A c \in Collisions :
            ~c.skipped =>
                /\ Damaged(c, 1, 2)
                /\ Damaged(c, 2, 1)
                /\ c.after.hs.map = c.before.hs.map
                /\ Len(c.after.hs.data) = Len(c.before.hs.data)
                /\ \A e \in DOMAIN c.before.hs.map :
                       e \notin {c.before.bodies[1].owner,
                                 c.before.bodies[2].owner} =>
                           Hitpoints(c.after.hs)[e] = Hitpoints(c.before.hs)[e]

\* a body that dies on collision and a body that does not, both with a
\* Health, have collided: the first is at f32::MIN and the second has lost
\* the 2 of damage of the first
C18_Witness ==
    /\ Updated
    /\ \E c \in Collisions :
          /\ ~c.skipped
          /\ c.before.bodies[1].die_on_collision
          /\ DOMAIN c.before.hs.map = {E(1), E(2)}
          /\ Hitpoints(c.before.hs)[E(1)][1] = Num(3)
          /\ Hitpoints(c.after.hs)[E(1)][1] = F32_MIN
          /\ Hitpoints(c.before.hs)[E(2)][1] = Num(3)
          /\ Hitpoints(c.after.hs)[E(2)][1] = One

\* the pass c changed no velocity, no position and no Health
Untouched(c) ==
    /\ c.after.bodies[1].velocity = c.before.bodies[1].velocity
    /\ c.after.bodies[2].velocity = c.before.bodies[2].velocity
    /\ c.after.positions = c.before.positions
    /\ c.after.hs = c.before.hs

\* C19: an overlapping pair whose relative velocity along the normal is not
\* negative (separating, or resting with a value of exactly 0) is skipped:
\* no velocity is changed, no positional correction applied and no damage
\* dealt for the pair in that sub-step.
C19_NonNegativeIsSkipped ==
    Updated =>
        \A c \in Collisions : RGe(c.normal_vel, Zero) => Untouched(c)

\* the same for the pairs whose relative velocity along the normal is
\* strictly positive
SeparatingIsSkipped ==
    Updated =>
        \A c \in Collisions : RGt(c.normal_vel, Zero) => Untouched(c)

\* a separating pair has been passed over
SeparatingSeen == Updated /\ \E c \in Collisions : RGt(c.normal_vel, Zero)

\* the axis of a normal
NormalAxis(normal) == CHOOSE k \in 1..3 : normal[k] # Zero

\* the three systems as they are now
Now == World(rigid_body_system, transformation_system, health_system)

\* the pairs (i, j) of the loops of RigidBodySystem::update
Pairs ==
    {p \in (0..(Len(rigid_body_system.rigid_bodies) - 1)) \X
            (0..(Len(rigid_body_system.rigid_bodies) - 1)) : p[1] < p[2]}

\* the body at index i
Body(i) == At(rigid_body_system.rigid_bodies, i)

\* position_1 or position_2 of the body at index i
Centre(i) ==
    VAdd(unwrap(get_position(transformation_system, Body(i).owner)),
         Body(i).offset)

\* the boxes of the bodies at i and j overlap
Overlap(i, j) ==
    is_some(colliding(Body(i), Body(j), <<Centre(i), Centre(j)>>))

\* C21: a pair of bodies that both have inverse mass 0 is never tested or
\* resolved (the pass of the pair loop over them changes no position, no
\* velocity, no foothold flag and no Health, even when they overlap, and no
\* collision of such a pair is gone through), and whenever the impulse
\* resolution divides by invMass_i + invMass_j that sum is strictly
\* positive, no inverse mass being negative.
C21_StaticPairsAreLeftAlone ==
    /\ \A k \in DOMAIN rigid_body_system.rigid_bodies :
           RGe(rigid_body_system.rigid_bodies[k].inv_mass, Zero)
    /\ \A p \in Pairs :
           (Body(p[1]).inv_mass = Zero /\ Body(p[2]).inv_mass = Zero) =>
               test_pair(Now, p[1], p[2], Centre(p[1])) = Now
    /\ Updated =>
           \A c \in Collisions :
               /\ ~(/\ c.before.bodies[1].inv_mass = Zero
                    /\ c.before.bodies[2].inv_mass = Zero)
               /\ ~c.skipped =>
                      RGt(RAdd(c.before.bodies[1].inv_mass,
                               c.before.bodies[2].inv_mass), Zero)

\* two overlapping bodies of inverse mass 0, one of them built with
\* with_mass(-1.0), have been through a sub-step that went through no collision
C21_Witness ==
    /\ Updated
    /\ last.arg.steps > 0
    /\ last.arg.log = <<>>
    /\ Len(rigid_body_system.rigid_bodies) = 2
    /\ Body(0).inv_mass = Zero
    /\ Body(1).inv_mass = Zero
    /\ Overlap(0, 1)

\* the centre of body s of the pair of the pass c, before or after it
CentreOf(side, s) == VAdd(unwrap(side.positions[s]), side.bodies[s].offset)

\* extents_i + extents_j - |position_j - position_i| along axis k, before or
\* after the pass c
OverlapOf(side, k) ==
    RSub(RAdd(side.bodies[1].extents[k], side.bodies[2].extents[k]),
         RAbs(RSub(CentreOf(side, 2)[k], CentreOf(side, 1)[k])))

\* how far the pass c moved body i against the normal and body j along it
Displacements(c) ==
    <<VDot(VSub(unwrap(c.before.positions[1]), unwrap(c.after.positions[1])),
           c.manifold.normal),
      VDot(VSub(unwrap(c.after.positions[2]), unwrap(c.before.positions[2])),
           c.manifold.normal)>>

\* the pass c left body s of the pair, of inverse mass 0, where it was and
\* at the velocity it had
StaticIsLeft(c, s) ==
    c.before.bodies[s].inv_mass = Zero =>
        /\ c.after.positions[s] = c.before.positions[s]
        /\ c.after.bodies[s].velocity = c.before.bodies[s].velocity

\* the two displacements of the pass c add up to the penetration
AddUpToPenetration(c) ==
    RAdd(Displacements(c)[1], Displacements(c)[2]) = c.manifold.penetration

\* after the pass c the pair does not overlap along the normal
ApartAlongNormal(c) ==
    RLe(OverlapOf(c.after, NormalAxis(c.manifold.normal)), Zero)

CoordinateRounding == Rat(1, 2 ^ 20)

\* x and y differ by no more than CoordinateRounding
Near(x, y) == RLe(RAbs(RSub(x, y)), CoordinateRounding)

\* invMass_s / (invMass_i + invMass_j) of the pass c
Share(c, s) ==
    RDiv(c.before.bodies[s].inv_mass,
         RAdd(c.before.bodies[1].inv_mass, c.before.bodies[2].inv_mass))

StaticResolved ==
    /\ Updated
    /\ \E c \in Collisions :
          /\ ~c.skipped
          /\ c.before.bodies[2].inv_mass = Zero
          /\ c.after.positions[1] # c.before.positions[1]

(***************************************************************************)
(* Claims about sub-steps, checked under SpecStack.                        *)
(***************************************************************************)
\* the integrations the call of RigidBodySystem::update that has just
\* returned made, one for each sub-step
Integrations == {last.arg.moved[k] : k \in DOMAIN last.arg.moved}

\* rigid_bodies at the end of sub-step s of the call that has just returned:
\* what the next sub-step began with or, for the last one, what it is now
BodiesAfter(s) ==
    IF s < last.arg.steps
    THEN last.arg.moved[s + 1].before.bodies
    ELSE rigid_body_system.rigid_bodies

\* in the pass c the body at index b was found on a body of inverse mass 0:
\* the normal points up from body i, static, to body j, or down from body i
\* to body j, static
StoodOn(c, b) ==
    \/ /\ c.j = b
       /\ c.before.bodies[1].inv_mass = Zero
       /\ c.manifold.normal = V3(0, 1, 0)
    \/ /\ c.i = b
       /\ c.before.bodies[2].inv_mass = Zero
       /\ c.manifold.normal = V3(0, -1, 0)

\* C23: at the end of a sub-step a body's foothold flag is true exactly
\* when, in that sub-step, it was found overlapping a body of inverse mass 0
\* with a vertical contact normal pointing from the static body to it (+Y
\* when the static body is the lower-indexed one of the pair, -Y when it is
\* the higher-indexed one), separating pairs included; a body of inverse
\* mass 0 never has foothold true.
C23_FootholdIsOnStatic ==
    Updated =>
        \A s \in 1..last.arg.steps :
            \A k \in DOMAIN BodiesAfter(s) :
                /\ BodiesAfter(s)[k].foothold <=>
                       \E c \in Collisions : c.step = s /\ StoodOn(c, k - 1)
                /\ BodiesAfter(s)[k].inv_mass = Zero =>
                       ~BodiesAfter(s)[k].foothold

\* a call ran two sub-steps; in the second the body at index 0 was found on
\* the static body under it while moving away from it, and has a foothold,
\* which the static body has not
C23_Witness ==
    /\ Updated
    /\ last.arg.steps = 2
    /\ \E c \in Collisions :
          /\ c.step = 2
          /\ c.skipped
          /\ c.i = 0
          /\ c.before.bodies[2].inv_mass = Zero
          /\ c.manifold.normal = V3(0, -1, 0)
    /\ Body(0).foothold
    /\ ~Body(1).foothold

\* the velocity integration gives a body: gravity times the fixed step is
\* added for a body of inverse mass > 0 that is not gravity-immune
Accelerated(body) ==
    IF RGt(body.inv_mass, Zero) /\ ~body.gravity_immune
    THEN VAdd(body.velocity,
              VScale(rigid_body_system.gravity, rigid_body_system.timer[2]))
    ELSE body.velocity

\* what the integration m did to the k-th body
IntegratedBody(m, k) ==
    /\ m.after.bodies[k].velocity = Accelerated(m.before.bodies[k])
    /\ unwrap(m.after.positions[k]) =
           VAdd(unwrap(m.before.positions[k]),
                VScale(VAdd(Accelerated(m.before.bodies[k]),
                            m.before.bodies[k].locomotion),
                       rigid_body_system.timer[2]))
    /\ m.after.bodies[k].locomotion = V3(0, 0, 0)
    /\ ~m.after.bodies[k].foothold

\* C24: in each sub-step, integration adds gravity times the fixed step to
\* the velocity of exactly the bodies with inverse mass > 0 that are not
\* gravity-immune, moves every body (static ones included) by
\* (velocity + locomotion) times the fixed step, and leaves every body with
\* locomotion zero and foothold false; a value given to set_locomotion is
\* the locomotion of the body until the first sub-step that follows, and no
\* later sub-step of the call starts with a locomotion other than zero.
C24_IntegrationAndLocomotion ==
    /\ (last.op = "set_locomotion"
            /\ last.entity \in DOMAIN rigid_body_system.map) =>
           Body(rigid_body_system.map[last.entity]).locomotion = last.arg
    /\ Updated =>
           \A m \in Integrations :
               \A k \in DOMAIN m.before.bodies :
                   /\ IntegratedBody(m, k)
                   /\ m.step > 1 =>
                          m.before.bodies[k].locomotion = V3(0, 0, 0)

\* a static body at rest was given a locomotion and a call then ran two
\* sub-steps: the first moved the body and the second did not
C24_Witness ==
    /\ Updated
    /\ last.arg.steps = 2
    /\ \E k \in DOMAIN rigid_body_system.rigid_bodies :
          /\ rigid_body_system.rigid_bodies[k].inv_mass = Zero
          /\ last.arg.moved[1].before.bodies[k].locomotion = V3(1, 0, 0)
          /\ last.arg.moved[1].after.positions[k] #
                 last.arg.moved[1].before.positions[k]
          /\ last.arg.moved[2].after.positions[k] =
                 last.arg.moved[2].before.positions[k]

\* the manifold of the pass c is the one colliding gives for the positions
\* the two bodies have when the pass begins
ManifoldIsCurrent(c) ==
    Some(c.manifold) =
        colliding(c.before.bodies[1], c.before.bodies[2],
                  <<CentreOf(c.before, 1), CentreOf(c.before, 2)>>)

\* C30: within one sub-step, the overlap test of every pair (i, j) uses both
\* bodies' transform positions as they are at the moment of the test,
\* including positional corrections applied to body i or body j while
\* resolving earlier pairs of the same sub-step.
C30_TestsUseCurrentPositions ==
    Updated => \A c \in Collisions : ManifoldIsCurrent(c)

\* the same for the passes that no resolved pass of the same body i and the
\* same sub-step comes before
FirstTestsUseCurrentPositions ==
    Updated =>
        \A k \in DOMAIN last.arg.log :
            (\A l \in 1..(k - 1) :
                \/ last.arg.log[l].step # last.arg.log[k].step
                \/ last.arg.log[l].i # last.arg.log[k].i
                \/ last.arg.log[l].skipped) =>
                ManifoldIsCurrent(last.arg.log[k])

\* a sub-step went through the pairs (0, 1) and (0, 2), in that order
SecondPairSeen ==
    /\ Updated
    /\ \E k \in DOMAIN last.arg.log :
          /\ k > 1
          /\ last.arg.log[k].step = last.arg.log[k - 1].step
          /\ last.arg.log[k].i = last.arg.log[k - 1].i

(***************************************************************************)
(* Claims about RigidBody::colliding, checked under SpecCollide.           *)
(***************************************************************************)
\* the boxes of a call of colliding overlap: on every axis the centres are
\* closer than the sum of the extents
Overlapping(a) ==
    \A k \in 1..3 :
        RLt(RAbs(RSub(a.positions[2][k], a.positions[1][k])),
            RAdd(a.self.extents[k], a.other.extents[k]))

\* the Option colliding returns for the arguments a with the two boxes swapped
Swapped(a) == colliding(a.other, a.self, <<a.positions[2], a.positions[1]>>)

\* r1 and r2 report a collision with the same penetration and opposite normals
Mirrored(r1, r2) ==
    /\ is_some(r1)
    /\ is_some(r2)
    /\ unwrap(r1).penetration = unwrap(r2).penetration
    /\ unwrap(r2).normal = <<RNeg(unwrap(r1).normal[1]),
                             RNeg(unwrap(r1).normal[2]),
                             RNeg(unwrap(r1).normal[3])>>

\* C13: for any two overlapping boxes A and B, colliding(A, B) and
\* colliding(B, A) both report a collision, with the same penetration and
\* with opposite normals.
C13_CollidingIsSymmetric ==
    (last.op = "colliding" /\ Overlapping(last.arg)) =>
        Mirrored(last.ret, Swapped(last.arg))

\* the same for boxes whose centres differ along the axis of the normal, and
\* the example: extents (1,1,1) at (0,0,0) and (1.5,0,0) give penetration
\* 0.5 and normal (1,0,0), and (-1,0,0) when swapped
CollidingIsSymmetricOffCentre ==
    (last.op = "colliding" /\ Overlapping(last.arg)) =>
        /\ is_some(last.ret)
        /\ LET k == NormalAxis(unwrap(last.ret).normal)
           IN  last.arg.positions[1][k] # last.arg.positions[2][k] =>
                   Mirrored(last.ret, Swapped(last.arg))
        /\ (/\ last.arg.self.extents = V3(1, 1, 1)
            /\ last.arg.other.extents = V3(1, 1, 1)
            /\ last.arg.positions = <<V3(0, 0, 0), <<Rat(3, 2), Zero, Zero>>>>) =>
               /\ last.ret = Some([penetration |-> Half, normal |-> V3(1, 0, 0)])
               /\ Swapped(last.arg) =
                      Some([penetration |-> Half, normal |-> V3(-1, 0, 0)])

\* the example of C13 has been called
CollidingExample ==
    /\ last.op = "colliding"
    /\ last.arg.self.extents = V3(1, 1, 1)
    /\ last.arg.other.extents = V3(1, 1, 1)
    /\ last.arg.positions = <<V3(0, 0, 0), <<Rat(3, 2), Zero, Zero>>>>

\* position_j - position_i of a call of colliding
Direction(a) == VSub(a.positions[2], a.positions[1])

\* extents_i + extents_j - |position_j - position_i| along axis k
OverlapAlong(a, k) ==
    RSub(RAdd(a.self.extents[k], a.other.extents[k]), RAbs(Direction(a)[k]))

\* the axis of the smallest overlap, x before y before z
MinimumAxis(a) ==
    IF /\ RLe(OverlapAlong(a, 1), OverlapAlong(a, 2))
       /\ RLe(OverlapAlong(a, 1), OverlapAlong(a, 3))
    THEN 1
    ELSE IF RLe(OverlapAlong(a, 2), OverlapAlong(a, 3)) THEN 2 ELSE 3

\* the unit vector of axis k, negative when position_j - position_i is
\* negative along k
SignedUnit(a, k) ==
    [l \in 1..3 |->
        IF l # k
        THEN Zero
        ELSE IF RLt(Direction(a)[k], Zero) THEN Num(-1) ELSE One]

\* C22: RigidBody::colliding returns a manifold exactly when
\* extents_i + extents_j - |position_j - position_i| is strictly positive on
\* all three axes; the penetration is the minimum of the three overlaps, and
\* the normal is the unit vector of the minimum-overlap axis (x before y
\* before z when overlaps are equal) with the sign of position_j - position_i
\* on that axis, positive when that component is 0.
C22_CollidingManifold ==
    last.op = "colliding" =>
        /\ is_some(last.ret) <=>
               \A k \in 1..3 : RGt(OverlapAlong(last.arg, k), Zero)
        /\ is_some(last.ret) =>
               /\ unwrap(last.ret).penetration =
                      OverlapAlong(last.arg, MinimumAxis(last.arg))
               /\ unwrap(last.ret).normal =
                      SignedUnit(last.arg, MinimumAxis(last.arg))

\* colliding was called on two boxes of the same centre and the same
\* extents, whose three overlaps are equal and whose centres differ by 0
\* along x: the normal is (1,0,0)
C22_Witness ==
    /\ last.op = "colliding"
    /\ Direction(last.arg) = V3(0, 0, 0)
    /\ last.arg.self.extents = last.arg.other.extents
    /\ last.ret = Some([penetration |-> OverlapAlong(last.arg, 1),
                        normal |-> V3(1, 0, 0)])

(***************************************************************************)
(* Claims about the dropped body, checked under FairDrop.                  *)
(***************************************************************************)
\* the rigid body of E(2), the body dropped
DroppedBody ==
    At(rigid_body_system.rigid_bodies, rigid_body_system.map[E(2)])

\* at the end of a sub-step the dropped body has a foothold and no vertical
\* velocity
AtRest ==
    /\ ~panicked
    /\ last.op = "RigidBodySystem::update"
    /\ last.arg.steps = 1
    /\ DroppedBody.inv_mass = One
    /\ DroppedBody.elasticity = Zero
    /\ DroppedBody.foothold
    /\ DroppedBody.velocity[2] = Zero

\* C15: a body of inverse mass 1 and elasticity 0 released above a static
\* floor of extents (10,0.5,10) at y = 0 eventually has, at the end of a
\* sub-step, its foothold flag set and a vertical velocity of 0, and so at
\* the end of every later sub-step, whichever body was added first.
C15_DroppedBodyComesToRest == <>[]AtRest

\* the body added before the floor is at rest on it, its centre above the
\* top of the floor
C15_Witness ==
    /\ AtRest
    /\ rigid_body_system.map[E(2)] = 0
    /\ RGt(unwrap(get_position(transformation_system, E(2)))[2], Half)
    /\ RLt(unwrap(get_position(transformation_system, E(2)))[2], Num(2))

(***************************************************************************)
(* Claims about RigidBodySystem::ray_cast, checked under SpecRay.          *)
(***************************************************************************)
\* the position of rigid_bodies[k]
TargetPosition(k) ==
    unwrap(get_position(transformation_system,
                        At(rigid_body_system.rigid_bodies, k).owner))

\* the places in rigid_bodies of the bodies other than the one excluded
\* that pass the ray-vs-AABB test of the ray cast last
Hits ==
    {k \in 0..(Len(rigid_body_system.rigid_bodies) - 1) :
        /\ At(rigid_body_system.rigid_bodies, k).owner # last.entity
        /\ ray_vs_aabb_intersecting(
               <<TargetPosition(k), At(rigid_body_system.rigid_bodies, k).extents>>,
               <<last.arg[1], last.arg[2],
                 <<Reciprocal(last.arg[2][1]), Reciprocal(last.arg[2][2]),
                   Reciprocal(last.arg[2][3])>>>>)}

\* the squared distance from the origin of the ray cast last to the
\* position of rigid_bodies[k]
SquaredDistance(k) == length_squared(VSub(TargetPosition(k), last.arg[1]))

\* C20: ray_cast never returns the excluded entity; when a body other than
\* the excluded one passes the ray-vs-AABB test it returns, with its squared
\* distance, the body among them whose position is nearest to the origin of
\* the ray, the earliest in rigid_bodies among equals; it returns None when
\* no such body passes the test.
C20_RayCastReturnsNearest ==
    (last.op = "ray_cast" /\ ~panicked) =>
        IF Hits = {}
        THEN last.ret = None
        ELSE \E k \in Hits :
                /\ last.ret = Some(<<SquaredDistance(k),
                                     At(rigid_body_system.rigid_bodies, k).owner>>)
                /\ unwrap(last.ret)[2] # last.entity
                /\ \A h \in Hits :
                       /\ RLe(SquaredDistance(k), SquaredDistance(h))
                       /\ SquaredDistance(h) = SquaredDistance(k) => k <= h

\* the excluded body passes the test and is the nearest, and of the two
\* others, as far as each other, the earlier is returned
C20_Witness ==
    /\ last.op = "ray_cast"
    /\ ~panicked
    /\ last.entity = E(1)
    /\ Hits = {1, 2}
    /\ RLt(SquaredDistance(0), SquaredDistance(1))
    /\ SquaredDistance(1) = SquaredDistance(2)
    /\ TargetPosition(1) # TargetPosition(2)
    /\ last.ret = Some(<<SquaredDistance(1), E(2)>>)

(***************************************************************************)
(* Claims about health and damage, checked under SpecHealth.               *)
(***************************************************************************)
\* C6: right after HealthSystem::update every health record has current <=
\* max, and the owner of every record whose current is <= 0 was passed to
\* destroy_entity during the call, for every (current, max) pair, max <= 0
\* included.
C6_UpdateClampsAndDestroys ==
    (last.op = "HealthSystem::update" /\ ~panicked) =>
        \A i \in 0..(Len(health_system.data) - 1) :
            LET health == At(health_system.data, i)
            IN  /\ RLe(health.hitpoints[1], health.hitpoints[2])
                /\ RLe(health.hitpoints[1], Zero) =>
                       \E k \in DOMAIN last.arg : last.arg[k] = health.owner

\* C7: harm, kill_entity and RigidBodySystem::update never change the
\* EntityManager, and an alive entity whose hitpoints are <= 0 when
\* HealthSystem::update is called is not alive right after that call.
C7_DeathIsDeferredToUpdate ==
    [][/\ last'.op \in {"harm", "kill_entity", "RigidBodySystem::update"} =>
              entity_manager' = entity_manager
       /\ (last'.op = "HealthSystem::update" /\ ~panicked') =>
              \A e \in DOMAIN health_system.map :
                  (/\ entity_is_alive(entity_manager, e)
                   /\ RLe(Hitpoints(health_system)[e][1], Zero)) =>
                      ~entity_is_alive(entity_manager', e)]_vars

\* C28: HealthSystem::update destroys a dead entity once: calling update
\* twice in a row with no other call in between leaves the EntityManager
\* (generation table and free-index queue) exactly as a single call does.
C28_SecondUpdateDestroysNothing ==
    [][(/\ last.op = "HealthSystem::update"
        /\ last'.op = "HealthSystem::update"
        /\ ~panicked') =>
           entity_manager' = entity_manager]_vars

\* what every call does: the owners of the records whose hitpoints are not
\* above their maximum and are <= 0 when the call is made are each passed to
\* destroy_entity, whatever the calls before did
EveryUpdateDestroysTheDead ==
    [][(last'.op = "HealthSystem::update" /\ ~panicked') =>
           \A e \in DOMAIN health_system.map :
               (/\ RLe(Hitpoints(health_system)[e][1],
                       Hitpoints(health_system)[e][2])
                /\ RLe(Hitpoints(health_system)[e][1], Zero)) =>
                   /\ \E k \in DOMAIN last'.arg : last'.arg[k] = e
                   /\ At(entity_manager'.generation, e.index) #
                          At(entity_manager.generation, e.index)]_vars

\* HealthSystem::update has destroyed an owner that was not alive
DeadDestroyedAgain ==
    /\ last.op = "HealthSystem::update"
    /\ ~panicked
    /\ \E k \in DOMAIN last.arg :
          At(entity_manager.generation, last.arg[k].index) >
              last.arg[k].generation + 1

(***************************************************************************)
(* Claims about the handles of entities with components, checked under     *)
(* SpecReuse.                                                              *)
(***************************************************************************)
\* the entity owns a component in one of the stores
OwnsComponent(entity) ==
    \/ entity_has_transformation(transformation_system, entity)
    \/ entity_has_rigid_body(rigid_body_system, entity)
    \/ entity_has_health(health_system, entity)
    \/ entity_has_drawable(drawable_system, entity)
    \/ entity_has_text(text_system, entity)
    \/ entity_has_particle_emitter(particle_emitter_system, entity)

\* C26: a handle freshly returned by create_new_entity owns no component:
\* for any sequence of entity create/destroy calls, component add/remove
\* calls and HealthSystem::update calls, entity_has_X is false in every
\* component store for the handle at the moment create_new_entity returns it.
C26_CreatedOwnsNothing == Created => ~OwnsComponent(last.ret)

\* the same for the handles create_new_entity returns for the first time
NewHandleOwnsNothing ==
    [][(last'.op = "create_new_entity" /\ ~panicked'
            /\ last'.ret \notin issued) =>
           ~(OwnsComponent(last.ret))']_vars

\* create_new_entity has returned a handle for the first time
NewHandleSeen == Created /\ last.ret \notin destroyed /\ last.arg.pending = 0

(***************************************************************************)
(* Claims about rigid bodies and their transformations, checked under      *)
(* SpecOrphan.                                                             *)
(***************************************************************************)
\* C29: after any sequence of add and remove calls on the
\* TransformationSystem and the RigidBodySystem, every entity that has a
\* RigidBody also has a Transformation, so the position lookups that
\* RigidBodySystem::update and ray_cast unwrap never fail.
C29_BodiesHaveTransformations ==
    /\ \A entity \in DOMAIN rigid_body_system.map :
           entity_has_transformation(transformation_system, entity)
    /\ ~panicked

\* the same for the runs that call remove_transformation_from_entity on no
\* entity that has a RigidBody
BodiesKeepTransformations ==
    [][(~(/\ last'.op = "remove_transformation_from_entity"
          /\ entity_has_rigid_body(rigid_body_system, last'.entity)
          /\ entity_has_transformation(transformation_system, last'.entity))
        /\ \A entity \in DOMAIN rigid_body_system.map :
               entity_has_transformation(transformation_system, entity)) =>
           /\ \A entity \in DOMAIN rigid_body_system'.map :
                  entity_has_transformation(transformation_system', entity)
           /\ ~panicked']_vars

\* RigidBodySystem::update has run a sub-step over a body
BodyUpdated == Updated /\ last.arg.steps > 0 /\ last.arg.count > 0

====
